---- MODULE Spec2Model ----
(***************************************************************************)
(* The chord / scale engine of the SAFE piano: the PianoXL component       *)
(* (cursor of chord types per note, mode-transition reset, key press,      *)
(* chord building with octave and inversion), as a state machine.          *)
(*                                                                         *)
(* React state is modelled by the value every handler closure sees: each   *)
(* event handler runs against the state of the last render, and the        *)
(* effects a render schedules run to completion before the next event.     *)
(***************************************************************************)
EXTENDS Integers, Sequences, FiniteSets, TLC

(***************************************************************************)
(* Bounds of the exploration.                                              *)
(***************************************************************************)
\* how many of KEYS (from "C" on) the parent may select as root key
NumKeys == 2
\* the cursor machine explores free-mode cursor indices from 0 up to this one ...
MaxFreeIndex == 3
\* ... and, wrapping down from 0, this many indices from the end of the catalog
MaxFreeBack == 0
\* how many of MODES (from "free" on) the parent may select
NumModes == 4
\* how many root notes the chord-building specification draws (from "C" on)
NumBuildRoots == 2
\* how many of BASS_SEQUENCE (from "BASS" on) the shell machine explores
NumBassOffsets == 2
\* the timer-driven invocations followed during one hold of the + bar
MaxTicks == 3
\* the sound presses followed: more than the six sounds, so the cycle wraps
MaxSoundPresses == 7

(***************************************************************************)
(* Tables (chord-utils.ts, PianoXL, types/music).                          *)
(***************************************************************************)
\* the twelve sharp-spelled note names, in pitch order (allNotes / notes / KEYS)
KEYS == <<"C", "C#", "D", "D#", "E", "F", "F#", "G", "G#", "A", "A#", "B">>

MODES == <<"free", "major", "minor", "dorian", "phrygian", "lydian",
           "mixolydian", "locrian">>

\* Object.entries(NOTE_VALUES) in insertion order; flat is note.includes('b')
NOTE_ENTRIES ==
  << [note |-> "C",  value |-> 0,  flat |-> FALSE],
     [note |-> "C#", value |-> 1,  flat |-> FALSE],
     [note |-> "Db", value |-> 1,  flat |-> TRUE],
     [note |-> "D",  value |-> 2,  flat |-> FALSE],
     [note |-> "D#", value |-> 3,  flat |-> FALSE],
     [note |-> "Eb", value |-> 3,  flat |-> TRUE],
     [note |-> "E",  value |-> 4,  flat |-> FALSE],
     [note |-> "F",  value |-> 5,  flat |-> FALSE],
     [note |-> "F#", value |-> 6,  flat |-> FALSE],
     [note |-> "Gb", value |-> 6,  flat |-> TRUE],
     [note |-> "G",  value |-> 7,  flat |-> FALSE],
     [note |-> "G#", value |-> 8,  flat |-> FALSE],
     [note |-> "Ab", value |-> 8,  flat |-> TRUE],
     [note |-> "A",  value |-> 9,  flat |-> FALSE],
     [note |-> "A#", value |-> 10, flat |-> FALSE],
     [note |-> "Bb", value |-> 10, flat |-> TRUE],
     [note |-> "B",  value |-> 11, flat |-> FALSE] >>

NOTE_VALUES ==
  [n \in {NOTE_ENTRIES[i].note : i \in DOMAIN NOTE_ENTRIES} |->
     (CHOOSE e \in {NOTE_ENTRIES[i] : i \in DOMAIN NOTE_ENTRIES} : e.note = n).value]

SCALE_PATTERNS ==
  [major      |-> <<0, 2, 4, 5, 7, 9, 11>>,
   minor      |-> <<0, 2, 3, 5, 7, 8, 10>>,
   dorian     |-> <<0, 2, 3, 5, 7, 9, 10>>,
   phrygian   |-> <<0, 1, 3, 5, 7, 8, 10>>,
   lydian     |-> <<0, 2, 4, 6, 7, 9, 11>>,
   mixolydian |-> <<0, 2, 4, 5, 7, 9, 10>>,
   locrian    |-> <<0, 1, 3, 5, 6, 8, 10>>,
   free       |-> <<0, 1, 2, 3, 4, 5, 6, 7, 8, 9, 10, 11>>]

\* The key written at line 48 of chord-utils.ts is the two characters
\* U+00CF U+2020 followed by "7" (a mis-decoded phi), spelled "I+7" here; the
\* chord type of ChordType, ALL_CHORD_TYPES and getChordName is U+03C6 "7",
\* spelled "phi7" here.  They are different keys.
CHORD_PATTERNS ==
     "major" :> <<0, 4, 7>>
  @@ "minor" :> <<0, 3, 7>>
  @@ "dim" :> <<0, 3, 6>>
  @@ "augmented" :> <<0, 4, 8>>
  @@ "5" :> <<0, 7>>
  @@ "major7" :> <<0, 4, 7, 11>>
  @@ "minor7" :> <<0, 3, 7, 10>>
  @@ "7" :> <<0, 4, 7, 10>>
  @@ "dim7" :> <<0, 3, 6, 9>>
  @@ "m7b5" :> <<0, 3, 6, 10>>
  @@ "I+7" :> <<0, 3, 6, 10>>
  @@ "minorMajor7" :> <<0, 3, 7, 11>>
  @@ "major9" :> <<0, 4, 7, 11, 14>>
  @@ "minor9" :> <<0, 3, 7, 10, 14>>
  @@ "9" :> <<0, 4, 7, 10, 14>>
  @@ "add9" :> <<0, 4, 7, 14>>
  @@ "7b9" :> <<0, 4, 7, 10, 13>>
  @@ "7#9" :> <<0, 4, 7, 10, 15>>
  @@ "dim9" :> <<0, 3, 6, 9, 14>>
  @@ "aug9" :> <<0, 4, 8, 10, 14>>
  @@ "11" :> <<0, 4, 7, 10, 14, 17>>
  @@ "m11" :> <<0, 3, 7, 10, 14, 17>>
  @@ "major11" :> <<0, 4, 7, 11, 14, 17>>
  @@ "13" :> <<0, 4, 7, 10, 14, 21>>
  @@ "13sus" :> <<0, 5, 7, 10, 14, 21>>
  @@ "13b9" :> <<0, 4, 7, 10, 13, 21>>
  @@ "m11b5" :> <<0, 3, 6, 10, 14, 17>>
  @@ "sus2" :> <<0, 2, 7>>
  @@ "sus4" :> <<0, 5, 7>>
  @@ "7sus" :> <<0, 5, 7, 10>>
  @@ "7sus4" :> <<0, 5, 7, 10>>
  @@ "9sus" :> <<0, 5, 7, 10, 14>>
  @@ "7sus2b9" :> <<0, 2, 7, 10, 13>>
  @@ "6" :> <<0, 4, 7, 9>>
  @@ "minor6" :> <<0, 3, 7, 9>>
  @@ "69" :> <<0, 4, 7, 9, 14>>
  @@ "m69" :> <<0, 3, 7, 9, 14>>
  @@ "7#11" :> <<0, 4, 7, 10, 18>>
  @@ "7b13" :> <<0, 4, 7, 10, 20>>
  @@ "maj9#11" :> <<0, 4, 7, 11, 14, 18>>
  @@ "m9b5" :> <<0, 3, 6, 10, 14>>
  @@ "9#11" :> <<0, 4, 7, 10, 14, 18>>
  @@ "maj7#5" :> <<0, 4, 8, 11>>
  @@ "7alt" :> <<0, 4, 8, 10, 15>>
  @@ "7b5" :> <<0, 4, 6, 10>>
  @@ "7#5" :> <<0, 4, 8, 10>>
  @@ "augmented7" :> <<0, 4, 8, 10>>
  @@ "augmentedMajor7" :> <<0, 4, 8, 11>>

ALL_CHORD_TYPES ==
  << "major", "minor", "dim", "augmented", "5",
     "major7", "minor7", "7", "dim7", "m7b5", "phi7", "minorMajor7",
     "major9", "minor9", "9", "add9", "7b9", "7#9", "dim9", "aug9",
     "11", "m11", "major11", "13", "13sus", "13b9", "m11b5",
     "sus2", "sus4", "7sus", "7sus4", "9sus", "7sus2b9",
     "6", "minor6", "69", "m69",
     "7#11", "7b13", "maj9#11", "m9b5", "9#11",
     "maj7#5", "7alt", "7b5", "7#5",
     "augmented7", "augmentedMajor7" >>

MAJOR_SCALE_CHORDS ==
  << <<"major", "major7", "major9", "add9">>,
     <<"minor", "minor7", "minor9">>,
     <<"minor", "minor7", "minor9">>,
     <<"major", "major7", "major9", "add9">>,
     <<"major", "7", "9">>,
     <<"minor", "minor7", "minor9">>,
     <<"dim", "dim7", "m7b5">> >>

MINOR_SCALE_CHORDS ==
  << <<"minor", "minor7", "minor9", "m11">>,
     <<"dim", "dim7", "m7b5">>,
     <<"major", "major7", "add9">>,
     <<"minor", "minor7", "minor9">>,
     <<"minor", "minor7", "minor9">>,
     <<"major", "major7", "add9">>,
     <<"major", "7", "9">> >>

\* the suffix getChordName appends for a chord type (its switch)
CHORD_SUFFIX ==
     "major" :> ""
  @@ "minor" :> "m"
  @@ "dim" :> "dim"
  @@ "augmented" :> "aug"
  @@ "5" :> "5"
  @@ "major7" :> "maj7"
  @@ "minor7" :> "m7"
  @@ "7" :> "7"
  @@ "dim7" :> "dim7"
  @@ "m7b5" :> "m7b5"
  @@ "phi7" :> "phi7"
  @@ "minorMajor7" :> "mMaj7"
  @@ "major9" :> "maj9"
  @@ "minor9" :> "m9"
  @@ "9" :> "9"
  @@ "add9" :> "add9"
  @@ "7b9" :> "7b9"
  @@ "7#9" :> "7#9"
  @@ "dim9" :> "dim9"
  @@ "aug9" :> "aug9"
  @@ "11" :> "11"
  @@ "m11" :> "m11"
  @@ "major11" :> "maj11"
  @@ "13" :> "13"
  @@ "13sus" :> "13sus"
  @@ "13b9" :> "13b9"
  @@ "m11b5" :> "m11b5"
  @@ "sus2" :> "sus2"
  @@ "sus4" :> "sus4"
  @@ "7sus" :> "7sus"
  @@ "7sus4" :> "7sus4"
  @@ "9sus" :> "9sus"
  @@ "7sus2b9" :> "7sus2b9"
  @@ "6" :> "6"
  @@ "minor6" :> "m6"
  @@ "69" :> "69"
  @@ "m69" :> "m69"
  @@ "7#11" :> "7#11"
  @@ "7b13" :> "7b13"
  @@ "maj9#11" :> "maj9#11"
  @@ "m9b5" :> "m9b5"
  @@ "9#11" :> "9#11"
  @@ "maj7#5" :> "maj7#5"
  @@ "7alt" :> "7alt"
  @@ "7b5" :> "7b5"
  @@ "7#5" :> "7#5"
  @@ "augmented7" :> "aug7"
  @@ "augmentedMajor7" :> "augMaj7"

\* sharpToFlatMap sending each flat spelling back to its sharp spelling
sharpToFlatMapSwapping ==
  [C |-> "C", D |-> "D", E |-> "E", F |-> "F", G |-> "G", A |-> "A", B |-> "B",
   Db |-> "C#", Eb |-> "D#", Gb |-> "F#", Ab |-> "G#", Bb |-> "A#"]
  @@ "C#" :> "Db" @@ "D#" :> "Eb" @@ "F#" :> "Gb" @@ "G#" :> "Ab" @@ "A#" :> "Bb"

sharpToFlatMap ==
  [C |-> "C", D |-> "D", E |-> "E", F |-> "F", G |-> "G", A |-> "A", B |-> "B",
   Db |-> "Db", Eb |-> "Eb", Gb |-> "Gb", Ab |-> "Ab", Bb |-> "Bb"]
  @@ "C#" :> "Db" @@ "D#" :> "Eb" @@ "F#" :> "Gb" @@ "G#" :> "Ab" @@ "A#" :> "Bb"

SOUNDS == <<"balafon", "piano", "rhodes", "steel_drum", "pluck", "pad">>

BASS_SEQUENCE == <<"BASS", "+1", "+2", "+3", "+4", "+5", "-6", "-5", "-4", "-3",
                   "-2", "-1", "OFF">>

\* createChord anchors the root at middle C
MIDDLE_C == 60
\* handleKeyPress anchors a numeric bass offset at C3
BASS_ANCHOR == 48

(***************************************************************************)
(* JavaScript helpers.                                                     *)
(***************************************************************************)
\* a % b of JavaScript for b > 0: the result has the sign of a
JsMod(a, b) == IF a >= 0 THEN a % b ELSE 0 - ((0 - a) % b)

Abs(x) == IF x < 0 THEN 0 - x ELSE x

Range(s) == {s[i] : i \in DOMAIN s}

Includes(s, x) == x \in Range(s)

\* Array.prototype.indexOf, 0-based, -1 when absent
IndexOf(s, x) ==
  IF Includes(s, x) THEN (CHOOSE i \in DOMAIN s : s[i] = x /\ \A j \in 1..(i - 1) : s[j] # x) - 1
  ELSE -1

\* the absent value of an optional (null / undefined), and a present one
NULL == <<>>
Some(x) == <<x>>

\* lastPressedNote before any key was pressed (null)
NO_NOTE == "none"

(***************************************************************************)
(* chord-utils.ts: getScaleNotes, createChord.                             *)
(***************************************************************************)
\* Object.entries(NOTE_VALUES).find(value === noteValue && !note.includes('b'))
FindSharpNote(noteValue) ==
  LET hits == {i \in DOMAIN NOTE_ENTRIES :
                 NOTE_ENTRIES[i].value = noteValue /\ ~NOTE_ENTRIES[i].flat}
  IN IF hits = {} THEN NULL
     ELSE Some(NOTE_ENTRIES[CHOOSE i \in hits : \A j \in hits : i <= j].note)

\* NoteValueAt without the reduction modulo 12
NoteValueAtNoWrap(rootValue, interval) == rootValue + interval

\* const noteValue = (rootValue + interval) % 12
NoteValueAt(rootValue, interval) == (rootValue + interval) % 12

RECURSIVE ScaleNotesFrom(_, _, _)
ScaleNotesFrom(rootValue, pattern, i) ==
  IF i > Len(pattern) THEN <<>>
  ELSE LET found == FindSharpNote(NoteValueAt(rootValue, pattern[i]))
       IN (IF found = NULL THEN <<>> ELSE found)
          \o ScaleNotesFrom(rootValue, pattern, i + 1)

\* getScaleNotes for every root and mode, computed once
SCALE_NOTES ==
  [root \in DOMAIN NOTE_VALUES |->
     [m \in DOMAIN SCALE_PATTERNS |->
        ScaleNotesFrom(NOTE_VALUES[root], SCALE_PATTERNS[m], 1)]]

getScaleNotes(root, m) == SCALE_NOTES[root][m]

\* null when the type is no key of CHORD_PATTERNS
createChord(root, type) ==
  IF type \notin DOMAIN CHORD_PATTERNS THEN NULL
  ELSE LET pattern == CHORD_PATTERNS[type]
       IN Some([root  |-> root,
                type  |-> type,
                notes |-> [i \in DOMAIN pattern |-> NOTE_VALUES[root] + pattern[i] + MIDDLE_C],
                name  |-> root \o type])

(***************************************************************************)
(* PianoXL: the pure parts of the render closure.  Each takes the state    *)
(* the closure reads as parameters.                                        *)
(***************************************************************************)
\* chordTypeIndices[note] || 0
IndexOr0(cti, note) == IF note \in DOMAIN cti THEN cti[note] ELSE 0

\* getAvailableChordTypes with a table for major and minor only
getAvailableChordTypesMajorMinorOnly(note, m, scale) ==
  IF m = "free" THEN ALL_CHORD_TYPES
  ELSE IF ~Includes(scale, note) THEN <<>>
  ELSE LET scaleDegree == IndexOf(scale, note) + 1
       IN IF m = "minor" THEN MINOR_SCALE_CHORDS[scaleDegree]
          ELSE IF m = "major" THEN MAJOR_SCALE_CHORDS[scaleDegree]
          ELSE <<>>

getAvailableChordTypes(note, m, scale) ==
  IF m = "free" THEN ALL_CHORD_TYPES
  ELSE IF ~Includes(scale, note) THEN <<>>
  ELSE LET scaleDegree == IndexOf(scale, note) + 1
       IN IF m = "minor"
          THEN (IF scaleDegree \in DOMAIN MINOR_SCALE_CHORDS
                THEN MINOR_SCALE_CHORDS[scaleDegree] ELSE <<>>)
          ELSE (IF scaleDegree \in DOMAIN MAJOR_SCALE_CHORDS
                THEN MAJOR_SCALE_CHORDS[scaleDegree] ELSE <<>>)

\* getCurrentChordType indexing the scale-degree list without the modulo
getCurrentChordTypeNoModulo(note, m, scale, cti) ==
  LET currentIndex == IndexOr0(cti, note)
  IN IF m = "free"
     THEN (IF currentIndex + 1 \in DOMAIN ALL_CHORD_TYPES
           THEN ALL_CHORD_TYPES[currentIndex + 1] ELSE "major")
     ELSE LET availableTypes == getAvailableChordTypes(note, m, scale)
          IN IF Len(availableTypes) = 0 THEN "major"
             ELSE IF currentIndex + 1 \in DOMAIN availableTypes
             THEN availableTypes[currentIndex + 1] ELSE "major"

getCurrentChordType(note, m, scale, cti) ==
  LET currentIndex == IndexOr0(cti, note)
  IN IF m = "free"
     THEN (IF currentIndex + 1 \in DOMAIN ALL_CHORD_TYPES
           THEN ALL_CHORD_TYPES[currentIndex + 1] ELSE "major")
     ELSE LET availableTypes == getAvailableChordTypes(note, m, scale)
          IN IF Len(availableTypes) = 0 THEN "major"
             ELSE availableTypes[JsMod(currentIndex, Len(availableTypes)) + 1]

\* convertNoteDisplay without its test for free mode
convertNoteDisplayAnyMode(note, m, flats) ==
  IF flats THEN sharpToFlatMap[note] ELSE note

convertNoteDisplay(note, m, flats) ==
  IF m = "free" /\ flats THEN sharpToFlatMap[note] ELSE note

\* bassOffset is NULL or Some(number)
getBassNote(root, bassOffset) ==
  IF bassOffset = NULL \/ bassOffset = Some(0) THEN ""
  ELSE LET rootIndex == IndexOf(KEYS, root)
       IN IF rootIndex = -1 THEN ""
          ELSE LET bassIndex == JsMod(rootIndex + bassOffset[1], 12)
               IN "/" \o (IF bassIndex + 1 \in DOMAIN KEYS THEN KEYS[bassIndex + 1]
                          ELSE "undefined")

\* getChordName without its first line: a name for notes outside the scale too
getChordNameAnyNote(note, m, scale, cti, flats, lastNote, bassOffset) ==
  LET chordType == getCurrentChordType(note, m, scale, cti)
      name == convertNoteDisplay(note, m, flats) \o CHORD_SUFFIX[chordType]
  IN IF lastNote = note /\ bassOffset # NULL
     THEN name \o getBassNote(note, bassOffset)
     ELSE name

\* getChordName adding the bass suffix for every note, last pressed or not
getChordNameBassOnAll(note, m, scale, cti, flats, lastNote, bassOffset) ==
  IF m # "free" /\ ~Includes(scale, note) THEN ""
  ELSE LET chordType == getCurrentChordType(note, m, scale, cti)
           name == convertNoteDisplay(note, m, flats) \o CHORD_SUFFIX[chordType]
       IN IF bassOffset # NULL
          THEN name \o getBassNote(note, bassOffset)
          ELSE name

getChordName(note, m, scale, cti, flats, lastNote, bassOffset) ==
  IF m # "free" /\ ~Includes(scale, note) THEN ""
  ELSE LET chordType == getCurrentChordType(note, m, scale, cti)
           name == convertNoteDisplay(note, m, flats)
                   \o (IF chordType \in DOMAIN CHORD_SUFFIX THEN CHORD_SUFFIX[chordType]
                       ELSE chordType)
       IN IF lastNote = note /\ bassOffset # NULL
          THEN name \o getBassNote(note, bassOffset)
          ELSE name

\* InvertStep whose downward pass lowers the last note but leaves it in place
InvertStepDownInPlace(notes, inv) ==
  IF inv > 0
  THEN Tail(notes) \o <<notes[1] + 12>>
  ELSE SubSeq(notes, 1, Len(notes) - 1) \o <<notes[Len(notes)] - 12>>

\* str.replace(/[A-G]#/g, match => sharpToFlatMap[match]) from position i on
RECURSIVE ReplaceSharpsFrom(_, _)
ReplaceSharpsFrom(str, i) ==
  IF i > Len(str) THEN ""
  ELSE IF /\ i < Len(str)
          /\ SubSeq(str, i, i) \in {"A", "B", "C", "D", "E", "F", "G"}
          /\ SubSeq(str, i + 1, i + 1) = "#"
       THEN (IF SubSeq(str, i, i + 1) \in DOMAIN sharpToFlatMap
             THEN sharpToFlatMap[SubSeq(str, i, i + 1)]
             ELSE "undefined")
            \o ReplaceSharpsFrom(str, i + 2)
       ELSE SubSeq(str, i, i) \o ReplaceSharpsFrom(str, i + 1)

\* PianoKey: the text shown on the key of a note ("" when the key shows none)
KeyLabel(note, m, scale, cti, flats, lastNote, bassOffset) ==
  LET chordName == getChordName(note, m, scale, cti, flats, lastNote, bassOffset)
      displayChordName == IF m = "free" /\ flats
                          THEN ReplaceSharpsFrom(chordName, 1)
                          ELSE chordName
      isInScale == m = "free" \/ Includes(scale, note)
  IN IF isInScale THEN displayChordName ELSE ""

\* one pass of the inversion loop body
InvertStep(notes, inv) ==
  IF inv > 0
  THEN Tail(notes) \o <<notes[1] + 12>>
  ELSE <<notes[Len(notes)] - 12>> \o SubSeq(notes, 1, Len(notes) - 1)

RECURSIVE InvertTimes(_, _, _)
InvertTimes(notes, inv, k) ==
  IF k = 0 THEN notes ELSE InvertTimes(InvertStep(notes, inv), inv, k - 1)

\* OctaveShift moving by a fifth per octave step instead of twelve semitones
OctaveShiftByFifth(notes, oct) ==
  [i \in DOMAIN notes |-> IF oct # 0 THEN notes[i] + 7 * oct ELSE notes[i]]

\* chord.notes.map(octave shift)
OctaveShift(notes, oct) ==
  [i \in DOMAIN notes |-> IF oct # 0 THEN notes[i] + 12 * oct ELSE notes[i]]

\* modifiedNotes of handleKeyPress: octave shift, then the inversion loop
ModifiedNotes(notes, oct, inv) ==
  IF inv # 0 THEN InvertTimes(OctaveShift(notes, oct), inv, Abs(inv))
  ELSE OctaveShift(notes, oct)

(***************************************************************************)
(* State.                                                                  *)
(***************************************************************************)
VARIABLES
  \* PianoXL props, set by the parent component
  selectedKey, mode, octave, inversion, useFlats, selectedBassOffset,
  \* PianoXL state (useState)
  scaleNotes, currentChord, lastPressedNote, chordTypeIndices, prevMode,
  \* the AudioSink and display-callback calls the last event made, in order
  calls,
  \* the last event handled (history)
  lastEvent,
  \* the inversion loop on its own: the working array, the inversion setting,
  \* the loop counter, and the root, chord type and octave setting the array
  \* was built from
  buildNotes, buildInversion, buildI, buildType, buildRoot, buildOctave,
  \* the bass note sent to the AudioSink by the last press that sent one
  \* (history): empty, or one entry
  bassLog,
  \* the loop of getScaleNotes on its own: its arguments, the position in the
  \* pattern and the notes pushed so far; and a note name as displayed
  loopRoot, loopMode, loopI, loopNotes, displayNote,
  \* DockWControls state (useState)
  dockKey, dockMode, dockOctave, dockInversion, selectedControl, dockUseFlats,
  dockBassOffset, lastPlayedChord, bassOffsetMap,
  \* DockWControls state of the sound window (useState), the one-shot timers
  \* of handleSoundPress that have not fired yet, and the number of sound
  \* presses so far (history)
  selectedSound, isSoundWindowSelected, isLoadingSound, soundTimers, soundPresses,
  \* the + bar of DockWControls: whether it is mounted, its isPressed state,
  \* whether each of its two refs holds a handle, its timers that are live in
  \* the runtime, the handlePlus closure its timer callbacks captured, and the
  \* number of timer-driven invocations since the last press-in (history)
  barMounted, isPressed, longPressTimerRef, acceleratedTimerRef, barTimers,
  boundPlus, barTicks

propVars == <<selectedKey, mode, octave, inversion, useFlats, selectedBassOffset>>
stateVars == <<scaleNotes, currentChord, lastPressedNote, chordTypeIndices, prevMode>>
buildVars == <<buildNotes, buildInversion, buildI, buildType, buildRoot, buildOctave>>
noteVars == <<loopRoot, loopMode, loopI, loopNotes, displayNote>>
dockVars == <<dockKey, dockMode, dockOctave, dockInversion, selectedControl,
              dockUseFlats, dockBassOffset, lastPlayedChord, bassOffsetMap>>
\* everything outside the PianoXL component
soundVars == <<selectedSound, isSoundWindowSelected, isLoadingSound, soundTimers,
               soundPresses>>
barVars == <<barMounted, isPressed, longPressTimerRef, acceleratedTimerRef,
             barTimers, boundPlus, barTicks>>
timerVars == <<soundVars, barVars>>
outsideVars == <<buildVars, noteVars, dockVars, timerVars>>
vars == <<propVars, stateVars, calls, lastEvent, bassLog, outsideVars>>

Call(fn, arg) == [fn |-> fn, arg |-> arg]
\* op: the handler; note: the piano key (press) or the last-pressed note (advance);
\* from: the mode, and before: the cursor, when the event arrived; dir: up / down
Event(op, note, from, dir, before) ==
  [op |-> op, note |-> note, from |-> from, dir |-> dir, before |-> before]

KeyChoices == {KEYS[i] : i \in 1..NumKeys}
\* the piano keys pressed in the cursor machine: C is in the scale of C major
\* and C# major, C# is not in the scale of C major
PressNotes == {"C", "C#"}
\* the piano key pressed in the walk through the free-mode catalog
CatalogNotes == {"C"}
BuildRoots == {KEYS[i] : i \in 1..NumBuildRoots}
ModeChoices == {MODES[i] : i \in 1..NumModes}

\* the chord-type cursor with no entries ({})
EMPTY_INDICES == <<>>

BuildIdle ==
  /\ buildNotes = <<>>
  /\ buildInversion = 0
  /\ buildI = 0
  /\ buildType = "major"
  /\ buildRoot = "C"
  /\ buildOctave = 0

\* selectedControl when no control is selected (null)
NO_CONTROL == "none"

\* the getScaleNotes loop not running, no name displayed
NoteIdle ==
  /\ loopRoot = "C"
  /\ loopMode = "free"
  /\ loopI = 0
  /\ loopNotes = <<>>
  /\ displayNote = "C"

\* PlusMinusBar after construction: mounted, not pressed, both refs null
BarInit ==
  /\ barMounted = TRUE
  /\ isPressed = FALSE
  /\ longPressTimerRef = FALSE
  /\ acceleratedTimerRef = FALSE
  /\ barTimers = {}
  /\ boundPlus = NULL
  /\ barTicks = 0

\* DockWControls after construction (its useState defaults), with its + bar
DockInit ==
  /\ dockKey = "C"
  /\ dockMode = "free"
  /\ dockOctave = 0
  /\ dockInversion = 0
  /\ selectedControl = NO_CONTROL
  /\ dockUseFlats = FALSE
  /\ dockBassOffset = "BASS"
  /\ lastPlayedChord = ""
  /\ bassOffsetMap = <<>>
  /\ selectedSound = "balafon"
  /\ isSoundWindowSelected = FALSE
  /\ isLoadingSound = FALSE
  /\ soundTimers = 0
  /\ soundPresses = 0
  /\ BarInit

\* PianoXL mounted by a parent with key C, mode free and the default props;
\* the mount effect has computed the scale (else branch of the useEffect)
\* the state of a PianoXL just mounted with key k and mode m (prevMode starts
\* as the mode, so the mount effect takes its else branch)
PianoMountedWith(k, m) ==
  /\ selectedKey = k
  /\ mode = m
  /\ scaleNotes = getScaleNotes(k, m)
  /\ currentChord = NULL
  /\ lastPressedNote = NO_NOTE
  /\ chordTypeIndices = EMPTY_INDICES
  /\ prevMode = m
  /\ calls = <<Call("onScaleNotesChange", getScaleNotes(k, m))>>
  /\ lastEvent = Event("mount", NO_NOTE, m, "-", EMPTY_INDICES)
  /\ bassLog = <<>>

\* the state of a PianoXL just mounted with key C and mode free
PianoMounted == PianoMountedWith("C", "free")

PianoInit ==
  /\ octave = 0
  /\ inversion = 0
  /\ useFlats = FALSE
  /\ selectedBassOffset = NULL
  /\ PianoMounted

Init == PianoInit /\ BuildIdle /\ NoteIdle /\ DockInit

\* a prop the parent does not pass
UNDEFINED == "undefined"

\* PianoXL as DockWControls mounts it, <PianoXL ref={pianoXLRef} />: no
\* selectedKey and no mode, the other props at their defaults.  The effect's
\* if (selectedKey) skips its whole body, so the scale stays empty and no
\* callback is called.
PianoUnwired ==
  /\ selectedKey = UNDEFINED
  /\ mode = UNDEFINED
  /\ octave = 0
  /\ inversion = 0
  /\ useFlats = FALSE
  /\ selectedBassOffset = NULL
  /\ scaleNotes = <<>>
  /\ currentChord = NULL
  /\ lastPressedNote = NO_NOTE
  /\ chordTypeIndices = EMPTY_INDICES
  /\ prevMode = UNDEFINED
  /\ calls = <<>>
  /\ lastEvent = Event("mount", NO_NOTE, UNDEFINED, "-", EMPTY_INDICES)
  /\ bassLog = <<>>

\* DockWControls after construction, with the keyboard and the + bar it renders
InitShell == PianoUnwired /\ BuildIdle /\ NoteIdle /\ DockInit

(***************************************************************************)
(* The useEffect on [selectedKey, mode, prevMode].                         *)
(***************************************************************************)
\* EnterFreeIndices without its "no entry yet" test: every note that was not in
\* the previous scale restarts at index 0
EnterFreeIndicesOverwrite(key, prevM, cti) ==
  LET prevScaleNotes == getScaleNotes(key, prevM)
      newlyAvailableNotes == {n \in Range(KEYS) : ~Includes(prevScaleNotes, n)}
  IN [n \in DOMAIN cti \cup newlyAvailableNotes |->
        IF n \in newlyAvailableNotes THEN 0 ELSE cti[n]]

\* entering free mode: a default entry (index 0) for every note that was not in
\* the previous scale and has no entry yet
EnterFreeIndices(key, prevM, cti) ==
  LET prevScaleNotes == getScaleNotes(key, prevM)
      newlyAvailableNotes == {n \in Range(KEYS) : ~Includes(prevScaleNotes, n)}
      updatedIndices ==
        [n \in DOMAIN cti \cup newlyAvailableNotes |->
           IF n \in DOMAIN cti THEN cti[n] ELSE 0]
  IN IF newlyAvailableNotes # {} THEN updatedIndices ELSE cti

\* EffectIndices emptying the cursor when the mode did not change
EffectIndicesClearedOnKeyChange(key, m, prevM, cti) ==
  IF m = "free" /\ m # prevM THEN EnterFreeIndices(key, prevM, cti)
  ELSE EMPTY_INDICES

\* EffectIndices without the branch for a change between two non-free modes
EffectIndicesKeptBetweenModes(key, m, prevM, cti) ==
  IF m = "free" /\ m # prevM THEN EnterFreeIndices(key, prevM, cti)
  ELSE IF prevM = "free" /\ m # "free" THEN EMPTY_INDICES
  ELSE cti

\* the cursor one run of the effect body leaves
EffectIndices(key, m, prevM, cti) ==
  IF m = "free" /\ m # prevM THEN EnterFreeIndices(key, prevM, cti)
  ELSE IF prevM = "free" /\ m # "free" THEN EMPTY_INDICES
  ELSE IF m # prevM THEN EMPTY_INDICES
  ELSE cti

\* ModeEffect clearing the chord only when free mode is entered or left
ModeEffectClearAroundFreeOnly(key, m, prevM, cti) ==
  LET scale == IF m = "free" /\ m # prevM THEN KEYS ELSE getScaleNotes(key, m)
      clear == m # prevM /\ (m = "free" \/ prevM = "free")
  IN [scale |-> scale,
      cti   |-> EffectIndices(key, m, prevM, cti),
      clear |-> clear,
      calls |-> <<Call("onScaleNotesChange", scale)>>
                \o (IF clear THEN <<Call("onChordChange", NULL)>> ELSE <<>>)]

\* one run of the effect body with props (key, m) and state (prevM, cti):
\* the scale and cursor it sets, whether it clears the chord, and its calls
ModeEffect(key, m, prevM, cti) ==
  LET scale == IF m = "free" /\ m # prevM THEN KEYS ELSE getScaleNotes(key, m)
  IN [scale |-> scale,
      cti   |-> EffectIndices(key, m, prevM, cti),
      clear |-> m # prevM,
      calls |-> <<Call("onScaleNotesChange", scale)>>
                \o (IF m # prevM THEN <<Call("onChordChange", NULL)>> ELSE <<>>)]

\* The parent re-renders PianoXL with props (k, m).  The effect runs; when it
\* changed prevMode it runs once more, now with mode = prevMode (else branch).
PropsChange(k, m) ==
  LET first == ModeEffect(k, m, prevMode, chordTypeIndices)
      again == m # prevMode
      second == ModeEffect(k, m, m, first.cti)
  IN /\ selectedKey' = k
     /\ mode' = m
     /\ prevMode' = m
     /\ scaleNotes' = IF again THEN second.scale ELSE first.scale
     /\ chordTypeIndices' = IF again THEN second.cti ELSE first.cti
     /\ currentChord' = IF first.clear THEN NULL ELSE currentChord
     /\ calls' = first.calls \o (IF again THEN second.calls ELSE <<>>)
     /\ UNCHANGED <<octave, inversion, useFlats, selectedBassOffset, lastPressedNote>>

\* getRelativeKey going up 4 semitones from minor to major
getRelativeKeyUpFour(currentKey, currentMode) ==
  IF currentMode # "major" /\ currentMode # "minor" THEN NULL
  ELSE LET currentIndex == IndexOf(KEYS, currentKey)
       IN IF currentMode = "minor"
          THEN Some([key |-> KEYS[((currentIndex + 4) % 12) + 1], mode |-> "major"])
          ELSE Some([key |-> KEYS[((currentIndex + 9) % 12) + 1], mode |-> "minor"])

\* SettingsPanelXL.getRelativeKey
getRelativeKey(currentKey, currentMode) ==
  IF currentMode # "major" /\ currentMode # "minor" THEN NULL
  ELSE LET currentIndex == IndexOf(KEYS, currentKey)
       IN IF currentMode = "minor"
          THEN Some([key |-> KEYS[((currentIndex + 3) % 12) + 1], mode |-> "major"])
          ELSE Some([key |-> KEYS[((currentIndex + 9) % 12) + 1], mode |-> "minor"])

\* the parent selects another root key (mode unchanged)
ChangeKey(k) ==
  /\ k # selectedKey
  /\ PropsChange(k, mode)
  /\ lastEvent' = Event("key", NO_NOTE, mode, "-", chordTypeIndices)
  /\ UNCHANGED <<bassLog, outsideVars>>

\* the parent selects another mode (key unchanged)
ChangeMode(m) ==
  /\ m # mode
  /\ PropsChange(selectedKey, m)
  /\ lastEvent' = Event("mode", NO_NOTE, mode, "-", chordTypeIndices)
  /\ UNCHANGED <<bassLog, outsideVars>>

\* long press on KEY in major or minor: key and mode change in one render
RelativeKeyChange ==
  /\ mode = "major" \/ mode = "minor"
  /\ LET relative == getRelativeKey(selectedKey, mode)
     IN /\ relative # NULL
        /\ PropsChange(relative[1].key, relative[1].mode)
  /\ lastEvent' = Event("relative", NO_NOTE, mode, "-", chordTypeIndices)
  /\ UNCHANGED <<bassLog, outsideVars>>

(***************************************************************************)
(* PianoXL event handlers.                                                 *)
(***************************************************************************)
\* BassPitch with the numeric offsets following the octave setting
BassPitchNumericFollowsOctave(note, chord, bassOffset) ==
  IF bassOffset = Some(0)
  THEN chord.notes[1] - 12
  ELSE BASS_ANCHOR + JsMod(IndexOf(KEYS, note) + bassOffset[1], 12) + 12 * octave

\* BassPitch with BASS taken from the chord after the octave shift
BassPitchFromShiftedChord(note, chord, bassOffset) ==
  IF bassOffset = Some(0)
  THEN OctaveShift(chord.notes, octave)[1] - 12
  ELSE BASS_ANCHOR + JsMod(IndexOf(KEYS, note) + bassOffset[1], 12)

\* the bass pitch handleKeyPress sends for the built chord
BassPitch(note, chord, bassOffset) ==
  IF bassOffset = Some(0)
  THEN chord.notes[1] - 12
  ELSE BASS_ANCHOR + JsMod(IndexOf(KEYS, note) + bassOffset[1], 12)

\* the bass history after a press that sent a bass note; revoiced: the entry
\* before was for the same key under another octave and another inversion
Logged(log, note, offset, pitch) ==
  << [note |-> note, offset |-> offset, octave |-> octave,
      inversion |-> inversion, pitch |-> pitch,
      revoiced |-> /\ log # <<>>
                   /\ log[1].note = note
                   /\ log[1].octave # octave
                   /\ log[1].inversion # inversion] >>

\* handleKeyPress past its guard.  The closure reads lastPressedNote as it was
\* before this press (setLastPressedNote takes effect with the next render).
PressPlayable(note) ==
  LET chordType == getCurrentChordType(note, mode, scaleNotes, chordTypeIndices)
      chord == createChord(note, chordType)
  IN /\ lastPressedNote' = note
     /\ IF chord = NULL
        THEN /\ calls' = <<>>
             /\ UNCHANGED <<currentChord, bassLog>>
        ELSE LET modifiedNotes == ModifiedNotes(chord[1].notes, octave, inversion)
                 withBass == /\ selectedBassOffset # NULL
                             /\ note = lastPressedNote
                             /\ IndexOf(KEYS, note) # -1
                 chordName == getChordName(note, mode, scaleNotes, chordTypeIndices,
                                           useFlats, lastPressedNote, selectedBassOffset)
                 modifiedChord == [chord[1] EXCEPT !.notes = modifiedNotes,
                                                   !.name = chordName]
             IN /\ currentChord' = Some(modifiedChord)
                /\ calls' = <<Call("playChord", modifiedNotes)>>
                            \o (IF withBass
                                THEN <<Call("playBassNote",
                                            BassPitch(note, chord[1], selectedBassOffset))>>
                                ELSE <<>>)
                            \o <<Call("onChordChange", Some(modifiedChord)),
                                 Call("onNoteSelect", note)>>
                /\ bassLog' =
                     IF withBass
                     THEN Logged(bassLog, note, selectedBassOffset[1],
                                 BassPitch(note, chord[1], selectedBassOffset))
                     ELSE bassLog

\* handleKeyPress without its in-scale guard
HandleKeyPressUnguarded(note) ==
  /\ lastEvent' = Event("press", note, mode, "-", chordTypeIndices)
  /\ UNCHANGED <<propVars, scaleNotes, chordTypeIndices, prevMode, outsideVars>>
  /\ PressPlayable(note)

\* handleKeyPress(note)
HandleKeyPress(note) ==
  /\ lastEvent' = Event("press", note, mode, "-", chordTypeIndices)
  /\ UNCHANGED <<propVars, scaleNotes, chordTypeIndices, prevMode, outsideVars>>
  /\ IF mode # "free" /\ ~Includes(scaleNotes, note)
     THEN /\ calls' = <<>>
          /\ UNCHANGED <<lastPressedNote, currentChord, bassLog>>
     ELSE PressPlayable(note)

\* PianoKey onPressOut
PressOut ==
  /\ currentChord' = NULL
  /\ calls' = <<Call("stopChord", NULL), Call("onChordChange", NULL)>>
  /\ lastEvent' = Event("release", NO_NOTE, mode, "-", chordTypeIndices)
  /\ UNCHANGED <<propVars, scaleNotes, lastPressedNote, chordTypeIndices, prevMode,
                 bassLog, outsideVars>>

\* NewIndex going down without adding the list length first
NewIndexNoWrap(currentIndex, direction, len) ==
  IF direction = "up"
  THEN JsMod(currentIndex + 1, len)
  ELSE JsMod(currentIndex - 1, len)

\* the index adjustLastChordType computes
NewIndex(currentIndex, direction, len) ==
  IF direction = "up"
  THEN JsMod(currentIndex + 1, len)
  ELSE JsMod(currentIndex - 1 + len, len)

\* which stored free-mode indices the cursor machine's exploration visits
FreeIndexExplored(i) ==
  i <= MaxFreeIndex \/ i >= Len(ALL_CHORD_TYPES) - MaxFreeBack

WithinExploration ==
  mode = "free" =>
    \A n \in DOMAIN chordTypeIndices : FreeIndexExplored(chordTypeIndices[n])

\* AdjustedIndices without the in-scale guard, cycling the full catalog when
\* the note has no scale-degree list
AdjustedIndicesAnyNote(direction, lastNote, m, scale, cti) ==
  IF lastNote = NO_NOTE THEN cti
  ELSE LET degreeTypes == getAvailableChordTypes(lastNote, m, scale)
           availableTypes == IF Len(degreeTypes) = 0 THEN ALL_CHORD_TYPES ELSE degreeTypes
           newIndex == NewIndex(IndexOr0(cti, lastNote), direction, Len(availableTypes))
       IN [n \in DOMAIN cti \cup {lastNote} |->
             IF n = lastNote THEN newIndex ELSE cti[n]]

\* AdjustedIndices keeping only the entry of the last-pressed note
AdjustedIndicesDroppingOthers(direction, lastNote, m, scale, cti) ==
  IF lastNote = NO_NOTE THEN cti
  ELSE LET availableTypes == IF m = "free" THEN ALL_CHORD_TYPES
                             ELSE getAvailableChordTypes(lastNote, m, scale)
       IN IF m # "free" /\ ~Includes(scale, lastNote) THEN cti
          ELSE IF Len(availableTypes) = 0 THEN cti
          ELSE [n \in {lastNote} |->
                  NewIndex(IndexOr0(cti, lastNote), direction, Len(availableTypes))]

\* the cursor adjustLastChordType(direction) leaves
AdjustedIndices(direction, lastNote, m, scale, cti) ==
  IF lastNote = NO_NOTE THEN cti
  ELSE LET availableTypes == IF m = "free" THEN ALL_CHORD_TYPES
                             ELSE getAvailableChordTypes(lastNote, m, scale)
       IN IF m # "free" /\ ~Includes(scale, lastNote) THEN cti
          ELSE IF Len(availableTypes) = 0 THEN cti
          ELSE LET currentIndex == IndexOr0(cti, lastNote)
                   newIndex == NewIndex(currentIndex, direction, Len(availableTypes))
               IN [n \in DOMAIN cti \cup {lastNote} |->
                     IF n = lastNote THEN newIndex ELSE cti[n]]

\* adjustLastChordType(direction), through the imperative handle
AdjustLastChordType(direction) ==
  /\ lastEvent' = Event("advance", lastPressedNote, mode, direction, chordTypeIndices)
  /\ calls' = <<>>
  /\ chordTypeIndices' =
       AdjustedIndices(direction, lastPressedNote, mode, scaleNotes, chordTypeIndices)
  /\ UNCHANGED <<propVars, scaleNotes, currentChord, lastPressedNote, prevMode,
                 bassLog, outsideVars>>

\* an advance that stays within the explored free-mode indices
AdvanceExplored(d) == AdjustLastChordType(d) /\ WithinExploration'

(***************************************************************************)
(* The cursor machine: key and mode changes, presses, releases, advances.  *)
(***************************************************************************)
Next ==
  \/ \E k \in KeyChoices : ChangeKey(k)
  \/ \E m \in ModeChoices : ChangeMode(m)
  \/ RelativeKeyChange
  \/ \E n \in PressNotes : HandleKeyPress(n)
  \/ PressOut
  \/ \E d \in {"up", "down"} : AdvanceExplored(d)

Spec == Init /\ [][Next]_vars

(***************************************************************************)
(* The walk through the whole free-mode catalog: key C in free mode, one   *)
(* piano key, every cursor index.                                          *)
(***************************************************************************)
NextCatalog ==
  \/ \E n \in CatalogNotes : HandleKeyPress(n)
  \/ PressOut
  \/ \E d \in {"up", "down"} : AdjustLastChordType(d)

SpecCatalog == Init /\ [][NextCatalog]_vars

(***************************************************************************)
(* The inversion loop of handleKeyPress on its own, one iteration per      *)
(* step, for every chord pattern, octave and inversion setting.            *)
(***************************************************************************)
OCTAVES == -2..2
INVERSIONS == -3..3

InitBuild ==
  /\ PianoInit
  /\ NoteIdle
  /\ DockInit
  /\ \E root \in BuildRoots, type \in DOMAIN CHORD_PATTERNS, oct \in OCTAVES :
       /\ buildType = type
       /\ buildRoot = root
       /\ buildOctave = oct
       /\ buildNotes = OctaveShift(createChord(root, type)[1].notes, oct)
  /\ buildInversion \in INVERSIONS
  /\ buildI = 0

\* one iteration of: for (i = 0; i < Math.abs(inversion); i++) { ... }
BuildStep ==
  /\ buildI < Abs(buildInversion)
  /\ buildNotes' = InvertStep(buildNotes, buildInversion)
  /\ buildI' = buildI + 1
  /\ UNCHANGED <<propVars, stateVars, calls, lastEvent, bassLog, buildInversion,
                 buildType, buildRoot, buildOctave, noteVars, dockVars, timerVars>>

NextBuild == BuildStep

SpecBuild == InitBuild /\ [][NextBuild]_vars

(***************************************************************************)
(* Properties.                                                             *)
(***************************************************************************)
\* a key press on note n is let through by handleKeyPress
Playable(n) == mode = "free" \/ Includes(scaleNotes, n)

\* the index the cursor resolves to for note n in the current state
ResolvedIndex(n) ==
  JsMod(IndexOr0(chordTypeIndices, n),
        Len(getAvailableChordTypes(n, mode, scaleNotes)))

\* C1: on a mode transition from a non-free mode into free mode every cursor
\* entry that existed keeps its index, and every note that had no entry
\* resolves to index 0 afterwards.
C1_EnterFreePreservesCursor ==
  [][(mode # "free" /\ mode' = "free") =>
       /\ \A n \in DOMAIN chordTypeIndices :
            n \in DOMAIN chordTypeIndices' /\ chordTypeIndices'[n] = chordTypeIndices[n]
       /\ \A n \in Range(KEYS) \ DOMAIN chordTypeIndices :
            IndexOr0(chordTypeIndices', n) = 0]_vars

\* free mode was just entered from major or minor, with the cursor of C# (a
\* note outside the scale that was left) at index 1 or more and kept
C1_Witness ==
  /\ lastEvent.op = "mode"
  /\ lastEvent.from \in {"major", "minor"}
  /\ mode = "free"
  /\ "C#" \in DOMAIN lastEvent.before
  /\ lastEvent.before["C#"] >= 1
  /\ ~Includes(getScaleNotes(selectedKey, lastEvent.from), "C#")
  /\ chordTypeIndices["C#"] = lastEvent.before["C#"]

\* C2: every mode transition whose target is not free (from free, between two
\* non-free modes, or the key and mode change of a relative-key switch) clears
\* the cursor, so every note of the new scale resolves to index 0 of its list.
C2_RestrictiveChangeClearsCursor ==
  [][(mode' # mode /\ mode' # "free") =>
       /\ chordTypeIndices' = EMPTY_INDICES
       /\ \A n \in Range(scaleNotes') :
            getCurrentChordType(n, mode', scaleNotes', chordTypeIndices')
              = getAvailableChordTypes(n, mode', scaleNotes')[1]]_vars

\* a relative-key switch has just cleared a cursor that held an index above 0
C2_Witness ==
  /\ lastEvent.op = "relative"
  /\ mode # lastEvent.from
  /\ \E n \in DOMAIN lastEvent.before : lastEvent.before[n] >= 1
  /\ chordTypeIndices = EMPTY_INDICES

\* C3 (as claimed): entering free mode from a non-free mode X keeps the
\* customized voicing: a note of X's scale that had a cursor entry resolves,
\* right after the transition, to the chord type it resolved to in X.
C3_EnterFreeKeepsChordType ==
  [][(mode # "free" /\ mode' = "free") =>
       \A n \in DOMAIN chordTypeIndices \cap Range(scaleNotes) :
         getCurrentChordType(n, mode', scaleNotes', chordTypeIndices')
           = getCurrentChordType(n, mode, scaleNotes, chordTypeIndices)]_vars

\* C4: for every playable note the resolved chord type is the element at index
\* (cursor mod length) of the note's current eligible list, 0 for a note
\* without entry, hence a member of that list.
C4_ResolvedTypeIsEligible ==
  \A n \in Range(KEYS) :
    Playable(n) =>
      LET availableTypes == getAvailableChordTypes(n, mode, scaleNotes)
          resolved == getCurrentChordType(n, mode, scaleNotes, chordTypeIndices)
      IN /\ Len(availableTypes) > 0
         /\ resolved = availableTypes[(IndexOr0(chordTypeIndices, n) % Len(availableTypes)) + 1]
         /\ Includes(availableTypes, resolved)

\* a key change has moved a note onto a scale degree whose list is not longer
\* than the index saved for it
C4_Witness ==
  /\ lastEvent.op = "key"
  /\ mode # "free"
  /\ \E n \in DOMAIN chordTypeIndices :
       /\ Includes(scaleNotes, n)
       /\ chordTypeIndices[n] >= Len(getAvailableChordTypes(n, mode, scaleNotes))

\* C5: an advance on the last-pressed note stores an index in 0..len-1 for the
\* current eligible list: one above the current index, 0 from len-1, going up;
\* one below, len-1 from 0 (never negative), going down.
C5_AdvanceWraps ==
  [][(/\ lastEvent'.op = "advance"
      /\ lastPressedNote # NO_NOTE
      /\ Playable(lastPressedNote)) =>
       LET len == Len(getAvailableChordTypes(lastPressedNote, mode, scaleNotes))
           cur == ResolvedIndex(lastPressedNote)
           new == IndexOr0(chordTypeIndices', lastPressedNote)
       IN /\ lastPressedNote \in DOMAIN chordTypeIndices'
          /\ new \in 0..(len - 1)
          /\ lastEvent'.dir = "up" => new = (IF cur = len - 1 THEN 0 ELSE cur + 1)
          /\ lastEvent'.dir = "down" => new = (IF cur = 0 THEN len - 1 ELSE cur - 1)]_vars

\* advance(down) on a list of length 4 at index 0 has stored index 3
C5_Witness ==
  /\ lastEvent.op = "advance"
  /\ lastEvent.dir = "down"
  /\ lastPressedNote # NO_NOTE
  /\ Playable(lastPressedNote)
  /\ Len(getAvailableChordTypes(lastPressedNote, mode, scaleNotes)) = 4
  /\ IndexOr0(lastEvent.before, lastPressedNote) = 0
  /\ chordTypeIndices[lastPressedNote] = 3

\* C6: advance leaves the cursor unchanged when no note was ever pressed, or
\* when the last-pressed note is not in the current scale of a non-free mode.
C6_AdvanceNoOp ==
  [][(/\ lastEvent'.op = "advance"
      /\ \/ lastPressedNote = NO_NOTE
         \/ ~Playable(lastPressedNote)) =>
       chordTypeIndices' = chordTypeIndices]_vars

\* an advance arrived while the last-pressed note, which has a cursor entry,
\* was outside the scale of a non-free mode
C6_Witness ==
  /\ lastEvent.op = "advance"
  /\ lastPressedNote # NO_NOTE
  /\ ~Playable(lastPressedNote)
  /\ lastPressedNote \in DOMAIN chordTypeIndices

\* C7: in a non-free mode a key press for a note outside the scale changes
\* neither lastPressedNote nor the current chord nor the cursor and makes no
\* playChord, playBassNote, onChordChange or onNoteSelect call.
C7_OutOfScalePressNoOp ==
  [][(/\ lastEvent'.op = "press"
      /\ mode # "free"
      /\ ~Includes(scaleNotes, lastEvent'.note)) =>
       /\ UNCHANGED <<lastPressedNote, currentChord, chordTypeIndices>>
       /\ calls' = <<>>]_vars

\* a note outside the scale was pressed while another note was the last pressed
\* one and its chord was still sounding
C7_Witness ==
  /\ lastEvent.op = "press"
  /\ mode # "free"
  /\ ~Includes(scaleNotes, lastEvent.note)
  /\ lastPressedNote # lastEvent.note
  /\ lastPressedNote # NO_NOTE
  /\ currentChord # NULL

\* C8 (as claimed): the unknown-chord-type failure is never reached: the chord
\* type resolved for any playable note is a key of the chord table, so a press
\* of a playable key sets the current chord and plays it.
C8_ChordTypeAlwaysKnown ==
  /\ \A n \in Range(KEYS) :
       Playable(n) =>
         getCurrentChordType(n, mode, scaleNotes, chordTypeIndices) \in DOMAIN CHORD_PATTERNS
  /\ (lastEvent.op = "press" /\ Playable(lastEvent.note)) =>
       /\ currentChord # NULL
       /\ currentChord[1].root = lastEvent.note
       /\ \E i \in DOMAIN calls : calls[i].fn = "playChord"

\* C9 (as claimed): a press of a playable key builds the chord of the type the
\* cursor resolves for that key (index 0 on the first press, k mod len after k
\* advances); with inversion 0 its notes are 60 + rootIndex + offset + 12 *
\* octave for each offset of the type, and its name is the root plus the
\* type's suffix.
C9_PressBuildsResolvedChord ==
  (lastEvent.op = "press" /\ Playable(lastEvent.note)) =>
    LET n == lastEvent.note
        type == getAvailableChordTypes(n, mode, scaleNotes)[ResolvedIndex(n) + 1]
    IN /\ currentChord # NULL
       /\ currentChord[1].root = n
       /\ currentChord[1].type = type
       /\ type \in DOMAIN CHORD_PATTERNS
       /\ inversion = 0 =>
            currentChord[1].notes =
              [i \in DOMAIN CHORD_PATTERNS[type] |->
                 60 + IndexOf(KEYS, n) + CHORD_PATTERNS[type][i] + 12 * octave]
       /\ currentChord[1].name = n \o CHORD_SUFFIX[type]

\* s without its i-th element
RemoveAt(s, i) == SubSeq(s, 1, i - 1) \o SubSeq(s, i + 1, Len(s))

IsLowest(s, i) == \A j \in DOMAIN s : s[i] <= s[j]
IsHighest(s, i) == \A j \in DOMAIN s : s[i] >= s[j]

\* C10 (as claimed): each positive inversion step takes the lowest note of the
\* current voicing, raises it by 12 and moves it to the end; each negative step
\* takes the highest note, lowers it by 12 and moves it to the front; the
\* other notes keep their order.
C10_InversionMovesExtremeNote ==
  [][(buildI' = buildI + 1) =>
       IF buildInversion > 0
       THEN \E i \in DOMAIN buildNotes :
              /\ IsLowest(buildNotes, i)
              /\ buildNotes' = RemoveAt(buildNotes, i) \o <<buildNotes[i] + 12>>
       ELSE \E i \in DOMAIN buildNotes :
              /\ IsHighest(buildNotes, i)
              /\ buildNotes' = <<buildNotes[i] - 12>> \o RemoveAt(buildNotes, i)]_vars

\* the notes createChord and the octave shift give before any inversion step
BuildBase ==
  OctaveShift(createChord(buildRoot, buildType)[1].notes, buildOctave)

\* C11: inversion is reversible: after any number of inversion steps of the
\* loop, the same number of steps of the opposite sign gives back exactly the
\* note sequence built with inversion 0, for every root, chord type, octave
\* and inversion setting in -3..3.
C11_InversionRoundTrip ==
  InvertTimes(buildNotes, 0 - buildInversion, buildI) = BuildBase

\* a downward and an upward loop that ran all three steps
C11_Witness ==
  /\ buildI = 3
  /\ buildNotes # BuildBase
  /\ buildType = "7b13"
  /\ buildInversion = -3

\* the number of notes of s in pitch class pc
PitchClassCount(s, pc) == Cardinality({i \in DOMAIN s : s[i] % 12 = pc})

\* C12: for every root, chord type, octave in -2..2 and inversion in -3..3 the
\* built chord has as many notes as the type has offsets and the same multiset
\* of pitch classes as root + offsets, at every step of the inversion loop.
C12_BuildKeepsPitchClasses ==
  LET offsets == CHORD_PATTERNS[buildType]
      rootIndex == IndexOf(KEYS, buildRoot)
      rootPlusOffsets == [i \in DOMAIN offsets |-> rootIndex + offsets[i]]
  IN /\ Len(buildNotes) = Len(offsets)
     /\ \A pc \in 0..11 :
          PitchClassCount(buildNotes, pc) = PitchClassCount(rootPlusOffsets, pc)

\* a chord shifted by an octave setting and fully inverted
C12_Witness ==
  /\ buildOctave = -2
  /\ buildInversion = 3
  /\ buildI = 3
  /\ Len(buildNotes) = 5

(***************************************************************************)
(* The note space on its own: the loop of getScaleNotes, one pattern       *)
(* element per step, for every root spelling and mode, and the flat        *)
(* spelling of a displayed note name.                                      *)
(***************************************************************************)
InitNoteSpace ==
  /\ PianoInit
  /\ BuildIdle
  /\ DockInit
  /\ loopRoot \in DOMAIN NOTE_VALUES
  /\ loopMode \in Range(MODES)
  /\ loopI = 0
  /\ loopNotes = <<>>
  /\ displayNote = loopRoot

\* one iteration of: for (const interval of pattern) { ... }
ScaleLoopStep ==
  /\ loopI < Len(SCALE_PATTERNS[loopMode])
  /\ LET interval == SCALE_PATTERNS[loopMode][loopI + 1]
         found == FindSharpNote(NoteValueAt(NOTE_VALUES[loopRoot], interval))
     IN loopNotes' = IF found = NULL THEN loopNotes ELSE loopNotes \o found
  /\ loopI' = loopI + 1
  /\ UNCHANGED <<propVars, stateVars, calls, lastEvent, bassLog, buildVars,
                 loopRoot, loopMode, displayNote, dockVars, timerVars>>

\* the displayed name is converted: sharpToFlatMap[note]
ShowFlat ==
  /\ displayNote' = sharpToFlatMap[displayNote]
  /\ UNCHANGED <<propVars, stateVars, calls, lastEvent, bassLog, buildVars,
                 loopRoot, loopMode, loopI, loopNotes, dockVars, timerVars>>

NextNoteSpace ==
  \/ ScaleLoopStep
  \/ ShowFlat

SpecNoteSpace == InitNoteSpace /\ [][NextNoteSpace]_vars

\* C13: for every root spelling and every non-free mode getScaleNotes returns
\* exactly 7 distinct notes in scale-degree order, the k-th being the
\* sharp-spelled pitch class (rootIndex + pattern[k]) mod 12, the pattern
\* strictly ascending from 0; for free mode it returns all 12 pitch classes.
C13_ScaleNotesByDegree ==
  LET pattern == SCALE_PATTERNS[loopMode]
      rootIndex == NOTE_VALUES[loopRoot]
  IN loopI = Len(pattern) =>
       /\ loopNotes = getScaleNotes(loopRoot, loopMode)
       /\ IF loopMode = "free"
          THEN Len(loopNotes) = 12 /\ Range(loopNotes) = Range(KEYS)
          ELSE /\ Len(loopNotes) = 7
               /\ Cardinality(Range(loopNotes)) = 7
               /\ pattern[1] = 0
               /\ \A k \in 1..6 : pattern[k] < pattern[k + 1]
               /\ \A k \in 1..7 :
                    loopNotes[k] = KEYS[((rootIndex + pattern[k]) % 12) + 1]

\* a finished seven-note scale on a flat-spelled root that wraps past B
C13_Witness ==
  /\ loopRoot = "Bb"
  /\ loopMode = "locrian"
  /\ loopI = 7
  /\ loopNotes = <<"A#", "B", "C#", "D#", "E", "F#", "G#">>

\* C19: the sharp-to-flat conversion is total over all 17 spellings and
\* idempotent: a displayed name always has a conversion, only the first
\* conversion of a name can change it, and the result is the flat spelling of
\* every spelling of the same pitch class.
C19_FlatSpellingIdempotent ==
  [][/\ displayNote \in DOMAIN sharpToFlatMap
     /\ displayNote' # displayNote =>
          /\ displayNote = loopRoot
          /\ \A n \in DOMAIN NOTE_VALUES :
               NOTE_VALUES[n] = NOTE_VALUES[loopRoot] =>
                 n \in DOMAIN sharpToFlatMap /\ sharpToFlatMap[n] = displayNote']_vars

\* a sharp spelling after its conversion
C19_Witness ==
  /\ loopRoot = "A#"
  /\ displayNote = "Bb"

(***************************************************************************)
(* The voicing machine: a PianoXL mounted with some bass offset, whose     *)
(* parent re-renders it with other octave and inversion settings between   *)
(* presses.                                                                *)
(***************************************************************************)
\* the octave and inversion settings the parent of the voicing machine selects
VoicingOctaves == {-1, 0, 1}
VoicingInversions == {-1, 0, 1}
\* OFF (null), BASS (0), +1..+5, -6..-1
BassOffsets == {NULL} \cup {Some(n) : n \in -6..5}

InitVoicing ==
  /\ octave = 0
  /\ inversion = 0
  /\ useFlats = FALSE
  /\ selectedBassOffset \in BassOffsets
  /\ PianoMounted
  /\ BuildIdle
  /\ NoteIdle
  /\ DockInit

\* the parent re-renders PianoXL with another octave (no effect depends on it)
SetOctave(o) ==
  /\ o # octave
  /\ octave' = o
  /\ calls' = <<>>
  /\ lastEvent' = Event("octave", NO_NOTE, mode, "-", chordTypeIndices)
  /\ UNCHANGED <<selectedKey, mode, inversion, useFlats, selectedBassOffset,
                 stateVars, bassLog, outsideVars>>

\* the parent re-renders PianoXL with another inversion
SetInversion(i) ==
  /\ i # inversion
  /\ inversion' = i
  /\ calls' = <<>>
  /\ lastEvent' = Event("inversion", NO_NOTE, mode, "-", chordTypeIndices)
  /\ UNCHANGED <<selectedKey, mode, octave, useFlats, selectedBassOffset,
                 stateVars, bassLog, outsideVars>>

NextVoicing ==
  \/ \E o \in VoicingOctaves : SetOctave(o)
  \/ \E i \in VoicingInversions : SetInversion(i)
  \/ \E n \in PressNotes : HandleKeyPress(n)
  \/ PressOut

SpecVoicing == InitVoicing /\ [][NextVoicing]_vars

\* the pitches the last event sent to playBassNote
BassPitchesSent ==
  {calls[i].arg : i \in {j \in DOMAIN calls : calls[j].fn = "playBassNote"}}

\* C14 (as claimed): with the bass offset BASS every press of a playable key,
\* whether or not the same key was pressed before, makes that key the
\* last-pressed note and sends playBassNote with the key's middle-register
\* root pitch minus 12.
C14_BassOnEveryPress ==
  (/\ lastEvent.op = "press"
   /\ selectedBassOffset = Some(0)
   /\ Playable(lastEvent.note)) =>
    /\ lastPressedNote = lastEvent.note
    /\ BassPitchesSent = {MIDDLE_C + IndexOf(KEYS, lastEvent.note) - 12}

\* C15 (as claimed): for every root and every numeric bass offset in -6..-1
\* and 1..5 the pitch sent to playBassNote is 48 + ((rootIndex + offset) mod
\* 12) with the non-negative mod, so it lies in 48..59.
C15_NumericBassInRegister ==
  (/\ lastEvent.op = "press"
   /\ selectedBassOffset # NULL
   /\ selectedBassOffset # Some(0)) =>
    \A pitch \in BassPitchesSent :
      /\ pitch = 48 + ((IndexOf(KEYS, lastEvent.note) + selectedBassOffset[1]) % 12)
      /\ pitch \in 48..59

\* C16: for numeric bass offsets the bass pitch depends only on the pressed
\* root and the offset: a press that sends a bass note sends the pitch the
\* press before sent for the same key and offset, whatever the octave and
\* inversion settings of the two presses.
C16_NumericBassIgnoresVoicing ==
  [][(/\ lastEvent'.op = "press"
      /\ BassPitchesSent' # {}
      /\ bassLog # <<>>
      /\ bassLog[1].note = lastEvent'.note
      /\ bassLog[1].offset = bassLog'[1].offset
      /\ bassLog[1].offset # 0) =>
       BassPitchesSent' = {bassLog[1].pitch}]_vars

\* a bass note sent again for the same key after the octave and the inversion
\* were changed, with an offset that wraps below the root
C16_Witness ==
  /\ bassLog # <<>>
  /\ bassLog[1].revoiced
  /\ bassLog[1].offset = -3
  /\ bassLog[1].note = "C#"

\* C17 (as claimed): for the bass offset BASS the bass pitch follows the octave
\* setting: with octave o it is the chord's root pitch after the octave shift,
\* 60 + rootIndex + 12 * o, minus 12.
C17_BassFollowsOctave ==
  \A a \in DOMAIN bassLog :
    bassLog[a].offset = 0 =>
      bassLog[a].pitch =
        MIDDLE_C + IndexOf(KEYS, bassLog[a].note) + 12 * bassLog[a].octave - 12

\* C17 (amended): for the bass offset BASS the bass pitch is taken from the
\* chord as createChord built it, before the octave shift: it is 60 +
\* rootIndex - 12 under every octave and inversion setting (the first offset
\* of every chord pattern being 0).
C17_BassFromUnshiftedRoot ==
  /\ \A t \in DOMAIN CHORD_PATTERNS : CHORD_PATTERNS[t][1] = 0
  /\ \A a \in DOMAIN bassLog :
       bassLog[a].offset = 0 =>
         bassLog[a].pitch = MIDDLE_C + IndexOf(KEYS, bassLog[a].note) - 12

\* a BASS note sent while the octave setting was not 0
C17_Witness ==
  \E a \in DOMAIN bassLog :
    /\ bassLog[a].offset = 0
    /\ bassLog[a].octave # 0
    /\ bassLog[a].note = "C#"

(***************************************************************************)
(* The key labels: a PianoXL mounted with or without flat display, one     *)
(* black key pressed and advanced through its chord types, under key and   *)
(* mode changes.                                                           *)
(***************************************************************************)
\* the piano key pressed, and the root keys and modes the parent selects: C# is
\* in the scale of C# major and not in that of C major
LabelNotes == {"C#"}
LabelKeys == {"C", "C#"}
LabelModes == {"free", "major"}

InitLabels ==
  /\ octave = 0
  /\ inversion = 0
  /\ useFlats \in BOOLEAN
  /\ selectedBassOffset = NULL
  /\ PianoMounted
  /\ BuildIdle
  /\ NoteIdle
  /\ DockInit

NextLabels ==
  \/ \E k \in LabelKeys : ChangeKey(k)
  \/ \E m \in LabelModes : ChangeMode(m)
  \/ \E n \in LabelNotes : HandleKeyPress(n)
  \/ \E d \in {"up", "down"} : AdjustLastChordType(d)

SpecLabels == InitLabels /\ [][NextLabels]_vars

\* the label of a key in the current state
Label(n) ==
  KeyLabel(n, mode, scaleNotes, chordTypeIndices, useFlats, lastPressedNote,
           selectedBassOffset)

\* C18: in free mode with useFlats on, the root in every key label is shown in
\* its flat spelling (C# -> Db, D# -> Eb, F# -> Gb, G# -> Ab, A# -> Bb, naturals
\* unchanged) for every chord type; in any non-free mode the labels use the
\* sharp spelling regardless of useFlats.
C18_LabelRootSpelling ==
  LET flatOf == [C |-> "C", D |-> "D", E |-> "E", F |-> "F", G |-> "G", A |-> "A",
                 B |-> "B"]
                @@ "C#" :> "Db" @@ "D#" :> "Eb" @@ "F#" :> "Gb" @@ "G#" :> "Ab"
                @@ "A#" :> "Bb"
  IN \A i \in DOMAIN KEYS :
       LET n == KEYS[i]
           type == getCurrentChordType(n, mode, scaleNotes, chordTypeIndices)
       IN Playable(n) =>
            Label(n) = (IF mode = "free" /\ useFlats THEN flatOf[n] ELSE n)
                       \o CHORD_SUFFIX[type]

\* a flat-spelled label of a chord type whose suffix has a sharp in it
C18_Witness ==
  /\ mode = "free"
  /\ useFlats
  /\ lastEvent.op = "advance"
  /\ Label("C#") = "Db7#9"
  /\ Label("A#") = "Bb"

(***************************************************************************)
(* The DockWControls shell: the selected control, the settings it holds,   *)
(* the settings panel's presses and long presses, and the +/- bars.        *)
(***************************************************************************)
\* a handler of the shell ran: it calls nothing on the AudioSink
ShellEvent(op) ==
  /\ calls' = <<>>
  /\ lastEvent' = Event(op, NO_NOTE, mode, "-", chordTypeIndices)
  /\ UNCHANGED <<propVars, stateVars, bassLog, buildVars, noteVars, timerVars>>

\* handleKeyPress, handleModePress, handleOctavePress, handleInversionPress
handleControlPress(control) ==
  /\ selectedControl' = IF selectedControl = control THEN NO_CONTROL ELSE control
  /\ ShellEvent("select")
  /\ UNCHANGED <<dockKey, dockMode, dockOctave, dockInversion, dockUseFlats,
                 dockBassOffset, lastPlayedChord, bassOffsetMap>>

handleBassPress ==
  /\ IF selectedControl = "bass"
     THEN /\ selectedControl' = NO_CONTROL
          /\ UNCHANGED dockBassOffset
     ELSE /\ selectedControl' = "bass"
          /\ dockBassOffset' =
               IF lastPlayedChord # "" /\ lastPlayedChord \in DOMAIN bassOffsetMap
               THEN bassOffsetMap[lastPlayedChord]
               ELSE dockBassOffset
  /\ ShellEvent("select")
  /\ UNCHANGED <<dockKey, dockMode, dockOctave, dockInversion, dockUseFlats,
                 lastPlayedChord, bassOffsetMap>>

\* long press on MODE: handleModeLongPress, once or twice
handleModeLongPress ==
  /\ dockMode' = "free"
  /\ selectedControl' = NO_CONTROL
  /\ ShellEvent("modeLongPress")
  /\ UNCHANGED <<dockKey, dockOctave, dockInversion, dockUseFlats, dockBassOffset,
                 lastPlayedChord, bassOffsetMap>>

\* long press on KEY: the relative key in major and minor, the flat display
\* in free mode, nothing in the other modes
handleKeyLongPress ==
  /\ IF dockMode = "major" \/ dockMode = "minor"
     THEN LET relative == getRelativeKey(dockKey, dockMode)
          IN /\ dockKey' = relative[1].key
             /\ dockMode' = relative[1].mode
             /\ UNCHANGED dockUseFlats
     ELSE IF dockMode = "free"
     THEN /\ dockUseFlats' = ~dockUseFlats
          /\ UNCHANGED <<dockKey, dockMode>>
     ELSE UNCHANGED <<dockKey, dockMode, dockUseFlats>>
  /\ ShellEvent("keyLongPress")
  /\ UNCHANGED <<dockOctave, dockInversion, selectedControl, dockBassOffset,
                 lastPlayedChord, bassOffsetMap>>

\* StepUp starting again from the lowest value past the highest
StepUpWrapping(prev, highest) ==
  IF prev + 1 > highest THEN 0 - highest ELSE prev + 1

\* Math.min(prev + 1, highest)
StepUp(prev, highest) == IF prev + 1 < highest THEN prev + 1 ELSE highest

\* Math.max(prev - 1, lowest)
StepDown(prev, lowest) == IF prev - 1 > lowest THEN prev - 1 ELSE lowest

\* the bass case of handlePlus / handleMinus: the offset by (towards the end
\* of BASS_SEQUENCE) and the entry stored for the last played chord
SetBassOffsetAt(nextIndex) ==
  LET newOffset == BASS_SEQUENCE[nextIndex + 1]
  IN /\ dockBassOffset' = newOffset
     /\ bassOffsetMap' =
          IF lastPlayedChord # ""
          THEN [c \in DOMAIN bassOffsetMap \cup {lastPlayedChord} |->
                  IF c = lastPlayedChord THEN newOffset ELSE bassOffsetMap[c]]
          ELSE bassOffsetMap

\* (currentIndex + 1) % length
CycleUp(currentIndex, length) == (currentIndex + 1) % length

\* CycleDown stopping at the first position
CycleDownSaturating(currentIndex, length) ==
  IF currentIndex = 0 THEN 0 ELSE currentIndex - 1

\* (currentIndex - 1 + length) % length
CycleDown(currentIndex, length) == (currentIndex - 1 + length) % length

\* handlePlus with a control selected (the switch)
PlusSelected ==
  /\ dockKey' = IF selectedControl = "key"
                THEN KEYS[CycleUp(IndexOf(KEYS, dockKey), Len(KEYS)) + 1]
                ELSE dockKey
  /\ dockMode' = IF selectedControl = "mode"
                 THEN MODES[CycleUp(IndexOf(MODES, dockMode), Len(MODES)) + 1]
                 ELSE dockMode
  /\ dockOctave' = IF selectedControl = "octave" THEN StepUp(dockOctave, 2)
                   ELSE dockOctave
  /\ dockInversion' = IF selectedControl = "inversion" THEN StepUp(dockInversion, 3)
                      ELSE dockInversion
  /\ IF selectedControl = "bass"
     THEN SetBassOffsetAt(CycleUp(IndexOf(BASS_SEQUENCE, dockBassOffset),
                                  Len(BASS_SEQUENCE)))
     ELSE UNCHANGED <<dockBassOffset, bassOffsetMap>>
  /\ ShellEvent("plus")
  /\ UNCHANGED <<selectedControl, dockUseFlats, lastPlayedChord>>

\* handleMinus with a control selected (the switch)
MinusSelected ==
  /\ dockKey' = IF selectedControl = "key"
                THEN KEYS[CycleDown(IndexOf(KEYS, dockKey), Len(KEYS)) + 1]
                ELSE dockKey
  /\ dockMode' = IF selectedControl = "mode"
                 THEN MODES[CycleDown(IndexOf(MODES, dockMode), Len(MODES)) + 1]
                 ELSE dockMode
  /\ dockOctave' = IF selectedControl = "octave" THEN StepDown(dockOctave, -2)
                   ELSE dockOctave
  /\ dockInversion' = IF selectedControl = "inversion" THEN StepDown(dockInversion, -3)
                      ELSE dockInversion
  /\ IF selectedControl = "bass"
     THEN SetBassOffsetAt(CycleDown(IndexOf(BASS_SEQUENCE, dockBassOffset),
                                    Len(BASS_SEQUENCE)))
     ELSE UNCHANGED <<dockBassOffset, bassOffsetMap>>
  /\ ShellEvent("minus")
  /\ UNCHANGED <<selectedControl, dockUseFlats, lastPlayedChord>>

\* handlePlus: with no control selected it advances the chord type of the
\* keyboard through pianoXLRef
handlePlus ==
  IF selectedControl = NO_CONTROL
  THEN AdjustLastChordType("up")
  ELSE PlusSelected

handleMinus ==
  IF selectedControl = NO_CONTROL
  THEN AdjustLastChordType("down")
  ELSE MinusSelected

\* the keys, modes and bass offsets the shell machine explores
ShellExplored ==
  /\ dockKey \in KeyChoices
  /\ dockMode \in ModeChoices
  /\ dockBassOffset \in {BASS_SEQUENCE[i] : i \in 1..NumBassOffsets}

PlusExplored == handlePlus /\ ShellExplored'
MinusExplored == handleMinus /\ ShellExplored'
KeyLongPressExplored == handleKeyLongPress /\ ShellExplored'

NextDock ==
  \/ \E c \in {"key", "mode", "octave", "inversion"} : handleControlPress(c)
  \/ handleBassPress
  \/ handleModeLongPress
  \/ KeyLongPressExplored
  \/ PlusExplored
  \/ MinusExplored

SpecDock == InitShell /\ [][NextDock]_vars

\* C20: after any sequence of plus/minus gestures and control selections from
\* the defaults the octave stays within -2..2 and the inversion within -3..3;
\* at a bound a further step in that direction leaves the value unchanged.
C20_OctaveInversionSaturate ==
  [][/\ dockOctave' \in -2..2
     /\ dockInversion' \in -3..3
     /\ (lastEvent'.op = "plus" /\ selectedControl = "octave" /\ dockOctave = 2)
          => dockOctave' = 2
     /\ (lastEvent'.op = "minus" /\ selectedControl = "octave" /\ dockOctave = -2)
          => dockOctave' = -2
     /\ (lastEvent'.op = "plus" /\ selectedControl = "inversion" /\ dockInversion = 3)
          => dockInversion' = 3
     /\ (lastEvent'.op = "minus" /\ selectedControl = "inversion" /\ dockInversion = -3)
          => dockInversion' = -3]_vars

\* the octave at its upper bound and the inversion at its lower bound, reached
\* by minus with the inversion selected
C20_Witness ==
  /\ dockOctave = 2
  /\ dockInversion = -3
  /\ selectedControl = "inversion"
  /\ lastEvent.op = "minus"

(***************************************************************************)
(* The scale degrees: a PianoXL mounted with any root key and mode, one    *)
(* piano key at a time pressed and advanced through its chord types.       *)
(***************************************************************************)
InitDegrees ==
  /\ octave = 0
  /\ inversion = 0
  /\ useFlats = FALSE
  /\ selectedBassOffset = NULL
  /\ \E k \in Range(KEYS), m \in Range(MODES) : PianoMountedWith(k, m)
  /\ BuildIdle
  /\ NoteIdle
  /\ DockInit

\* the walk keeps a cursor entry for the last-pressed key only, within the
\* explored free-mode indices
OneKeyAtATime ==
  /\ DOMAIN chordTypeIndices \subseteq {lastPressedNote}
  /\ WithinExploration

PressOneKey(n) == HandleKeyPress(n) /\ OneKeyAtATime'
AdvanceOneKey(d) == AdjustLastChordType(d) /\ OneKeyAtATime'

NextDegrees ==
  \/ \E n \in Range(KEYS) : PressOneKey(n)
  \/ \E d \in {"up", "down"} : AdvanceOneKey(d)

SpecDegrees == InitDegrees /\ [][NextDegrees]_vars

\* C24: for dorian, phrygian, lydian, mixolydian and locrian the eligible
\* chord-type list of each scale degree 1..7 is the major-mode list of that
\* degree, in content and order; minor uses its own table and free the full
\* catalog.
C24_ModalModesUseMajorTable ==
  LET majorScale == getScaleNotes(selectedKey, "major")
  IN IF mode = "free"
     THEN \A i \in DOMAIN KEYS :
            getAvailableChordTypes(KEYS[i], mode, scaleNotes) = ALL_CHORD_TYPES
     ELSE /\ Len(scaleNotes) = 7
          /\ \A degree \in 1..7 :
               getAvailableChordTypes(scaleNotes[degree], mode, scaleNotes) =
                 IF mode = "minor" THEN MINOR_SCALE_CHORDS[degree]
                 ELSE getAvailableChordTypes(majorScale[degree], "major", majorScale)
          /\ MINOR_SCALE_CHORDS # MAJOR_SCALE_CHORDS

\* the third chord type of the seventh degree of a locrian scale, played
C24_Witness ==
  /\ mode = "locrian"
  /\ lastEvent.op = "press"
  /\ lastEvent.note = scaleNotes[7]
  /\ currentChord # NULL
  /\ currentChord[1].type = "m7b5"

\* C28 (as claimed): in major and minor modes the per-degree table is diatonic:
\* for every root, degree and chord type eligible at the degree, the chord
\* built on the degree's note uses only pitch classes of the active scale.
C28_DegreeChordsDiatonic ==
  (/\ mode \in {"major", "minor"}
   /\ currentChord # NULL) =>
    \A i \in DOMAIN currentChord[1].notes :
      Includes(scaleNotes, KEYS[(currentChord[1].notes[i] % 12) + 1])

\* C25: in a non-free mode a note outside the active scale has no eligible
\* chord type, and the default type 'major' resolved for it is never surfaced:
\* its chord name and key label are empty, a press of its key plays and
\* reports nothing, and no chord reported has a root outside the scale.
C25_OutOfScaleNeverSurfaced ==
  [][/\ \A i \in DOMAIN KEYS :
          LET n == KEYS[i]
          IN (mode' # "free" /\ ~Includes(scaleNotes', n)) =>
               /\ getAvailableChordTypes(n, mode', scaleNotes') = <<>>
               /\ getCurrentChordType(n, mode', scaleNotes', chordTypeIndices') = "major"
               /\ getChordName(n, mode', scaleNotes', chordTypeIndices', useFlats',
                               lastPressedNote', selectedBassOffset') = ""
               /\ Label(n)' = ""
               /\ (lastEvent'.op = "press" /\ lastEvent'.note = n) =>
                    calls' = <<>> /\ currentChord' = currentChord
     /\ \A j \in DOMAIN calls' :
          (calls'[j].fn = "onChordChange" /\ calls'[j].arg # NULL) =>
            (mode' = "free" \/ Includes(scaleNotes', calls'[j].arg[1].root))]_vars

\* a key outside the scale with a cursor entry kept from another key, pressed
C25_Witness ==
  /\ mode = "major"
  /\ selectedKey = "C"
  /\ lastEvent.op = "press"
  /\ lastEvent.note = "C#"
  /\ "C#" \in DOMAIN chordTypeIndices
  /\ Label("C#") = ""
  /\ calls = <<>>

\* C26: changing the root key while the mode stays the same (free or any
\* other mode) leaves every cursor entry unchanged; only the scale notes are
\* recomputed.
C26_KeyChangeKeepsCursor ==
  [][lastEvent'.op = "key" =>
       /\ chordTypeIndices' = chordTypeIndices
       /\ scaleNotes' = getScaleNotes(selectedKey', mode)
       /\ UNCHANGED <<mode, prevMode, currentChord, lastPressedNote>>]_vars

\* a key change in a non-free mode with a cursor entry above 0
C26_Witness ==
  /\ lastEvent.op = "key"
  /\ mode = "minor"
  /\ \E n \in DOMAIN chordTypeIndices : chordTypeIndices[n] = 2

\* the label of key n without any bass offset
PlainLabel(n) ==
  KeyLabel(n, mode, scaleNotes, chordTypeIndices, useFlats, lastPressedNote, NULL)

\* the label of key n ends in a bass suffix
CarriesBass(n) == Label(n) # PlainLabel(n)

\* C27: in every state at most one key label carries a bass suffix, and it is
\* the label of the last-pressed note; when a different playable key is
\* pressed (with a numeric bass offset) the suffix moves to that key and the
\* previous key's label loses it.
C27_BassSuffixOnLastPressedOnly ==
  /\ [](\A i \in DOMAIN KEYS : CarriesBass(KEYS[i]) => KEYS[i] = lastPressedNote)
  /\ [][(/\ lastEvent'.op = "press"
         /\ lastEvent'.note # lastPressedNote
         /\ selectedBassOffset \notin {NULL, Some(0)}) =>
          \A i \in DOMAIN KEYS :
            CarriesBass(KEYS[i])' <=> KEYS[i] = lastEvent'.note]_vars

\* C# pressed after C (whose bass was the last one sent) with the bass offset
\* +3: the suffix is on C# only
C27_Witness ==
  /\ lastEvent.op = "press"
  /\ lastEvent.note = "C#"
  /\ bassLog # <<>>
  /\ bassLog[1].note = "C"
  /\ BassPitchesSent = {}
  /\ selectedBassOffset = Some(3)
  /\ CarriesBass("C#")
  /\ ~CarriesBass("C")

\* C29 (as claimed): for every root and every numeric bass offset in -6..-1
\* and 1..5 the last-pressed key's label ends in '/' followed by the name of
\* pitch class (rootIndex + offset) mod 12, one of the 12 note names.
C29_BassSuffixNamesPitchClass ==
  (/\ lastPressedNote # NO_NOTE
   /\ selectedBassOffset \notin {NULL, Some(0)}) =>
    Label(lastPressedNote) =
      PlainLabel(lastPressedNote) \o "/" \o
        KEYS[((IndexOf(KEYS, lastPressedNote) + selectedBassOffset[1]) % 12) + 1]

(***************************************************************************)
(* The sound window of DockWControls: handleSoundPress and the one-shot    *)
(* timers it starts.  Nothing cancels a timer; each fires once.            *)
(***************************************************************************)
\* handleSoundPress that starts no timer on the press that opens the window
handleSoundPressNoFirstTimer ==
  /\ soundPresses < MaxSoundPresses
  /\ soundPresses' = soundPresses + 1
  /\ isLoadingSound' = TRUE
  /\ IF ~isSoundWindowSelected
     THEN /\ isSoundWindowSelected' = TRUE
          /\ UNCHANGED <<selectedSound, soundTimers>>
     ELSE /\ selectedSound' = SOUNDS[((IndexOf(SOUNDS, selectedSound) + 1) % Len(SOUNDS)) + 1]
          /\ soundTimers' = soundTimers + 1
          /\ UNCHANGED isSoundWindowSelected
  /\ calls' = <<>>
  /\ lastEvent' = Event("sound", NO_NOTE, mode, "-", chordTypeIndices)
  /\ UNCHANGED <<propVars, stateVars, bassLog, buildVars, noteVars, dockVars, barVars>>

\* handleSoundPress: the first press opens the window, every later press
\* takes the next sound; both set the loading state and start a timer
handleSoundPress ==
  /\ soundPresses < MaxSoundPresses
  /\ soundPresses' = soundPresses + 1
  /\ isLoadingSound' = TRUE
  /\ soundTimers' = soundTimers + 1
  /\ IF ~isSoundWindowSelected
     THEN /\ isSoundWindowSelected' = TRUE
          /\ UNCHANGED selectedSound
     ELSE /\ selectedSound' = SOUNDS[((IndexOf(SOUNDS, selectedSound) + 1) % Len(SOUNDS)) + 1]
          /\ UNCHANGED isSoundWindowSelected
  /\ calls' = <<>>
  /\ lastEvent' = Event("sound", NO_NOTE, mode, "-", chordTypeIndices)
  /\ UNCHANGED <<propVars, stateVars, bassLog, buildVars, noteVars, dockVars, barVars>>

\* the callback of a pending timer: setIsLoadingSound(false)
SoundTimerFires ==
  /\ soundTimers > 0
  /\ soundTimers' = soundTimers - 1
  /\ isLoadingSound' = FALSE
  /\ calls' = <<>>
  /\ lastEvent' = Event("soundTimer", NO_NOTE, mode, "-", chordTypeIndices)
  /\ UNCHANGED <<propVars, stateVars, bassLog, buildVars, noteVars, dockVars, barVars,
                 selectedSound, isSoundWindowSelected, soundPresses>>

NextSound ==
  \/ handleSoundPress
  \/ SoundTimerFires
  \/ \E c \in {"key", "mode", "octave", "inversion"} : handleControlPress(c)

SpecSound == InitShell /\ [][NextSound]_vars

\* the runtime runs the callback of every timer that is due
FairSpecSound == SpecSound /\ WF_vars(SoundTimerFires)

\* C23: after any finite sequence of sound-button presses, provided pending
\* timers eventually fire, the loading state eventually becomes false, and
\* once false it stays false until the next sound press.
C23_LoadingClears ==
  /\ isLoadingSound ~> ~isLoadingSound
  /\ <>[](~isLoadingSound)
  /\ [][(~isLoadingSound /\ isLoadingSound') => lastEvent'.op = "sound"]_vars

\* three presses, every timer fired, the second sound after balafon selected
C23_Witness ==
  /\ soundPresses = 3
  /\ soundTimers = 0
  /\ ~isLoadingSound
  /\ selectedSound = "rhodes"
  /\ lastEvent.op = "soundTimer"

(***************************************************************************)
(* The + bar of DockWControls (PlusMinusBar with onPress = handlePlus):    *)
(* press-in, the delay timer, the repeating timer, release, unmount.       *)
(***************************************************************************)
\* what a handlePlus closure reads from the render it was created in
PlusClosure ==
  [control |-> selectedControl, key |-> dockKey, mode |-> dockMode,
   bass |-> dockBassOffset, chord |-> lastPlayedChord]

\* the frame of the bar's own steps: they call nothing on the AudioSink
BarEvent(op) ==
  /\ calls' = <<>>
  /\ lastEvent' = Event(op, NO_NOTE, mode, "-", chordTypeIndices)
  /\ UNCHANGED <<propVars, scaleNotes, currentChord, lastPressedNote, prevMode,
                 bassLog, buildVars, noteVars, soundVars>>

\* handlePressIn: setIsPressed(true), then setTimeout(..., 500); the callbacks
\* close over the onPress of this render
handlePressIn ==
  /\ barMounted
  /\ ~isPressed
  /\ isPressed' = TRUE
  /\ longPressTimerRef' = TRUE
  /\ barTimers' = barTimers \cup {"delay"}
  /\ boundPlus' = Some(PlusClosure)
  /\ barTicks' = 0
  /\ BarEvent("pressIn")
  /\ UNCHANGED <<barMounted, acceleratedTimerRef, chordTypeIndices, dockVars>>

\* the setTimeout callback: it starts the repeating timer
DelayFires ==
  /\ "delay" \in barTimers
  /\ barTimers' = (barTimers \ {"delay"}) \cup {"repeat"}
  /\ acceleratedTimerRef' = TRUE
  /\ BarEvent("delay")
  /\ UNCHANGED <<barMounted, isPressed, longPressTimerRef, boundPlus, barTicks,
                 chordTypeIndices, dockVars>>

\* handlePlus as the closure b: values read from the closure's render, the
\* functional updates (octave, inversion, bassOffsetMap) from the current
\* state.  After the unmount pianoXLRef.current is null and every state
\* setter is dropped.
BoundPlusRuns(b) ==
  IF ~barMounted THEN UNCHANGED <<chordTypeIndices, dockVars>>
  ELSE IF b.control = NO_CONTROL
  THEN /\ chordTypeIndices' =
            AdjustedIndices("up", lastPressedNote, mode, scaleNotes, chordTypeIndices)
       /\ UNCHANGED dockVars
  ELSE /\ dockKey' = IF b.control = "key"
                     THEN KEYS[((IndexOf(KEYS, b.key) + 1) % Len(KEYS)) + 1]
                     ELSE dockKey
       /\ dockMode' = IF b.control = "mode"
                      THEN MODES[((IndexOf(MODES, b.mode) + 1) % Len(MODES)) + 1]
                      ELSE dockMode
       /\ dockOctave' = IF b.control = "octave" THEN StepUp(dockOctave, 2)
                        ELSE dockOctave
       /\ dockInversion' = IF b.control = "inversion" THEN StepUp(dockInversion, 3)
                           ELSE dockInversion
       /\ IF b.control = "bass"
          THEN LET newOffset ==
                     BASS_SEQUENCE[((IndexOf(BASS_SEQUENCE, b.bass) + 1)
                                    % Len(BASS_SEQUENCE)) + 1]
               IN /\ dockBassOffset' = newOffset
                  /\ bassOffsetMap' =
                       IF b.chord # ""
                       THEN [c \in DOMAIN bassOffsetMap \cup {b.chord} |->
                               IF c = b.chord THEN newOffset ELSE bassOffsetMap[c]]
                       ELSE bassOffsetMap
          ELSE UNCHANGED <<dockBassOffset, bassOffsetMap>>
       /\ UNCHANGED <<chordTypeIndices, selectedControl, dockUseFlats, lastPlayedChord>>

\* one run of the setInterval callback: onPress()
RepeatTick ==
  /\ "repeat" \in barTimers
  /\ barTicks < MaxTicks
  /\ barTicks' = barTicks + 1
  /\ BoundPlusRuns(boundPlus[1])
  /\ BarEvent("tick")
  /\ UNCHANGED <<barMounted, isPressed, longPressTimerRef, acceleratedTimerRef,
                 barTimers, boundPlus>>

\* handlePressOut clearing the delay timer only
handlePressOutDelayOnly ==
  /\ barMounted
  /\ isPressed
  /\ isPressed' = FALSE
  /\ longPressTimerRef' = FALSE
  /\ barTimers' = barTimers \ (IF longPressTimerRef THEN {"delay"} ELSE {})
  /\ BarEvent("release")
  /\ UNCHANGED <<barMounted, acceleratedTimerRef, boundPlus, barTicks,
                 chordTypeIndices, dockVars>>

\* handlePressOut: setIsPressed(false), clearTimeout and clearInterval of the
\* handles the refs hold
handlePressOut ==
  /\ barMounted
  /\ isPressed
  /\ isPressed' = FALSE
  /\ longPressTimerRef' = FALSE
  /\ acceleratedTimerRef' = FALSE
  /\ barTimers' = (barTimers \ (IF longPressTimerRef THEN {"delay"} ELSE {}))
                           \ (IF acceleratedTimerRef THEN {"repeat"} ELSE {})
  /\ BarEvent("release")
  /\ UNCHANGED <<barMounted, boundPlus, barTicks, chordTypeIndices, dockVars>>

\* the tap: Pressable's onPress is the handlePlus of the current render
BarTap == barMounted /\ ~isPressed /\ PlusExplored

\* DockWControls and its bars leave the screen: the component has no effect
\* and no cleanup, so nothing runs
BarUnmount ==
  /\ barMounted
  /\ barMounted' = FALSE
  /\ BarEvent("unmount")
  /\ UNCHANGED <<isPressed, longPressTimerRef, acceleratedTimerRef, barTimers,
                 boundPlus, barTicks, chordTypeIndices, dockVars>>

\* selecting a control of the settings panel
BarSelect ==
  /\ barMounted
  /\ \/ \E c \in {"key", "mode", "octave", "inversion"} : handleControlPress(c)
     \/ handleBassPress

\* a timer-driven invocation that stays within the explored shell values
TickExplored == RepeatTick /\ ShellExplored'

NextBar ==
  \/ handlePressIn
  \/ DelayFires
  \/ TickExplored
  \/ handlePressOut
  \/ BarTap
  \/ BarUnmount
  \/ BarSelect

SpecBar == InitShell /\ [][NextBar]_vars

\* C21: no timer-driven invocation of the action happens before the initial
\* delay after press-in has expired, and a release cancels both timers, so no
\* timer-driven invocation occurs between a release and the next press-in.
C21_RepeatOnlyWhileHeld ==
  /\ []((barMounted /\ ~isPressed) => barTimers = {})
  /\ [][barTicks' = barTicks + 1 =>
          /\ isPressed
          /\ "delay" \notin barTimers
          /\ acceleratedTimerRef]_vars

\* released after two timer-driven invocations: no timer is left
C21_Witness ==
  /\ lastEvent.op = "release"
  /\ barTicks = 2
  /\ barTimers = {}
  /\ ~acceleratedTimerRef

\* C22 (as claimed): after the bar is unmounted while pressed no timer of it
\* remains pending and the action is not invoked any more.
C22_UnmountCancelsTimers ==
  /\ [](~barMounted => barTimers = {})
  /\ [][~barMounted => barTicks' = barTicks]_vars

\* C30 (as claimed): while the bar is held with the key, mode or bass control
\* selected, after n timer-driven invocations the selected value has moved n
\* positions around its cycle from where it was at press-in.
C30_EachTickSteps ==
  (/\ barMounted
   /\ isPressed
   /\ boundPlus # NULL
   /\ boundPlus[1].control = selectedControl) =>
    /\ selectedControl = "key" =>
         dockKey = KEYS[((IndexOf(KEYS, boundPlus[1].key) + barTicks) % Len(KEYS)) + 1]
    /\ selectedControl = "mode" =>
         dockMode = MODES[((IndexOf(MODES, boundPlus[1].mode) + barTicks) % Len(MODES)) + 1]
    /\ selectedControl = "bass" =>
         dockBassOffset =
           BASS_SEQUENCE[((IndexOf(BASS_SEQUENCE, boundPlus[1].bass) + barTicks)
                          % Len(BASS_SEQUENCE)) + 1]

\* C32: advance changes at most the cursor entry of the last-pressed note; the
\* entries of all other notes, lastPressedNote, the current chord (notes and
\* name) and the AudioSink are left unchanged.
C32_AdvanceTouchesOneEntry ==
  [][lastEvent'.op = "advance" =>
       /\ DOMAIN chordTypeIndices \subseteq DOMAIN chordTypeIndices'
       /\ DOMAIN chordTypeIndices' \subseteq DOMAIN chordTypeIndices \cup {lastPressedNote}
       /\ \A n \in DOMAIN chordTypeIndices :
            n # lastPressedNote => chordTypeIndices'[n] = chordTypeIndices[n]
       /\ calls' = <<>>
       /\ UNCHANGED <<lastPressedNote, currentChord, scaleNotes, propVars>>]_vars

\* an advance of C# while C has a cursor entry of its own and C#'s chord is
\* still the current chord
C32_Witness ==
  /\ lastEvent.op = "advance"
  /\ lastPressedNote = "C#"
  /\ DOMAIN chordTypeIndices = {"C", "C#"}
  /\ chordTypeIndices["C"] = 2
  /\ chordTypeIndices["C#"] = 1
  /\ currentChord # NULL
  /\ currentChord[1].root = "C#"

\* C35: every mode transition clears the current chord and reports
\* onChordChange(none) while lastPressedNote is retained; a key change
\* without a mode change does not clear the current chord.
C35_ModeChangeClearsChord ==
  [][/\ mode' # mode =>
          /\ currentChord' = NULL
          /\ \E j \in DOMAIN calls' : calls'[j] = Call("onChordChange", NULL)
          /\ lastPressedNote' = lastPressedNote
     /\ (selectedKey' # selectedKey /\ mode' = mode) =>
          /\ currentChord' = currentChord
          /\ \A j \in DOMAIN calls' : calls'[j].fn # "onChordChange"]_vars

\* a change between two non-free modes after a press: the chord is gone, the
\* last-pressed note is still there
C35_Witness ==
  /\ lastEvent.op = "mode"
  /\ lastEvent.from = "major"
  /\ mode = "minor"
  /\ currentChord = NULL
  /\ lastPressedNote = "C"

(***************************************************************************)
(* The shell over all 12 keys, 8 modes and 13 bass offsets: the KEY, MODE  *)
(* and BASS selections, the long presses and the +/- bars.                 *)
(***************************************************************************)
NextShell ==
  \/ \E c \in {"key", "mode"} : handleControlPress(c)
  \/ handleBassPress
  \/ handleModeLongPress
  \/ handleKeyLongPress
  \/ handlePlus
  \/ handleMinus

SpecShell == InitShell /\ [][NextShell]_vars

\* the set of notes of the scale of (key, m)
ScaleSet(key, m) == Range(getScaleNotes(key, m))

\* C33: the relative-key switch (long press on KEY in major or minor) maps
\* (key, major) to (key - 3 semitones, minor) and (key, minor) to (key + 3
\* semitones, major); applied to its result it gives back the original key
\* and mode; the new key and mode have the same set of scale notes; in
\* dorian..locrian it changes nothing and in free it only toggles the flat
\* display.
C33_RelativeKeyInvolution ==
  [][lastEvent'.op = "keyLongPress" =>
       LET i == IndexOf(KEYS, dockKey)
       IN /\ dockMode = "major" =>
               /\ dockKey' = KEYS[((i - 3) % 12) + 1]
               /\ dockMode' = "minor"
          /\ dockMode = "minor" =>
               /\ dockKey' = KEYS[((i + 3) % 12) + 1]
               /\ dockMode' = "major"
          /\ dockMode \in {"major", "minor"} =>
               /\ getRelativeKey(dockKey', dockMode') =
                    Some([key |-> dockKey, mode |-> dockMode])
               /\ ScaleSet(dockKey', dockMode') = ScaleSet(dockKey, dockMode)
               /\ dockUseFlats' = dockUseFlats
          /\ dockMode = "free" =>
               /\ dockUseFlats' = ~dockUseFlats
               /\ UNCHANGED <<dockKey, dockMode>>
          /\ dockMode \notin {"major", "minor", "free"} =>
               UNCHANGED <<dockKey, dockMode, dockUseFlats>>
          /\ UNCHANGED <<dockOctave, dockInversion, dockBassOffset, selectedControl>>]_vars

\* the switch from D major: B minor
C33_Witness ==
  /\ lastEvent.op = "keyLongPress"
  /\ dockKey = "B"
  /\ dockMode = "minor"

\* the position reached from position i by n plus steps in a cycle of length
RECURSIVE CycleUpTimes(_, _, _)
CycleUpTimes(i, length, n) ==
  IF n = 0 THEN i ELSE CycleUpTimes(CycleUp(i, length), length, n - 1)

\* the selector of the selected control: its cycle, and its position before
\* and after the step
SelectedCycle ==
  IF selectedControl = "key" THEN KEYS
  ELSE IF selectedControl = "mode" THEN MODES
  ELSE BASS_SEQUENCE

SelectedPosition ==
  IF selectedControl = "key" THEN IndexOf(KEYS, dockKey)
  ELSE IF selectedControl = "mode" THEN IndexOf(MODES, dockMode)
  ELSE IndexOf(BASS_SEQUENCE, dockBassOffset)

\* C34: the key (12 values), mode (8 values) and bass-offset (13 values)
\* selectors are cyclic: with that control selected, the minus step undoes a
\* plus step and the plus step undoes a minus step from every position, and
\* as many plus steps as the cycle is long lead back to the starting value.
C34_SelectorsCyclic ==
  [][(/\ selectedControl \in {"key", "mode", "bass"}
      /\ lastEvent'.op \in {"plus", "minus"}) =>
       LET length == Len(SelectedCycle)
           before == SelectedPosition
           after == SelectedPosition'
       IN /\ Len(KEYS) = 12 /\ Len(MODES) = 8 /\ Len(BASS_SEQUENCE) = 13
          /\ after \in 0..(length - 1)
          /\ after # before
          /\ lastEvent'.op = "plus" =>
               /\ after = CycleUp(before, length)
               /\ CycleDown(after, length) = before
               /\ CycleUpTimes(before, length, length) = before
               /\ \A n \in 1..(length - 1) : CycleUpTimes(before, length, n) # before
          /\ lastEvent'.op = "minus" =>
               /\ after = CycleDown(before, length)
               /\ CycleUp(after, length) = before]_vars

\* minus from the first bass offset: the last one, OFF
C34_Witness ==
  /\ lastEvent.op = "minus"
  /\ selectedControl = "bass"
  /\ dockBassOffset = "OFF"
  /\ dockKey = "B"
  /\ dockMode = "locrian"

\* C36 (as claimed): the loading state set by a sound press is cleared only
\* by the timer of that same press.  All timers run for the same time, so
\* the timer of the latest press fires last: as long as any timer is pending,
\* loading is still true.
C36_LoadingUntilOwnTimer == soundTimers > 0 => isLoadingSound

(***************************************************************************)
(* DockWControls with its keyboard: the shell's handlers and the presses   *)
(* and releases of the piano keys of the PianoXL it renders.               *)
(***************************************************************************)
NextKeyboard ==
  \/ NextDock
  \/ \E n \in PressNotes : HandleKeyPress(n)
  \/ PressOut

SpecKeyboard == InitShell /\ [][NextKeyboard]_vars

\* C31 (as claimed): in DockWControls a key press resolves playability and
\* builds the chord with the key, mode, octave and inversion the shell holds:
\* a key that is playable under the shell's key and mode plays its chord,
\* shifted and inverted by the shell's octave and inversion; any other key
\* plays nothing.
C31_KeyboardUsesShellState ==
  lastEvent.op = "press" =>
    LET n == lastEvent.note
        shellScale == getScaleNotes(dockKey, dockMode)
        chordType == getCurrentChordType(n, dockMode, shellScale, lastEvent.before)
        chord == createChord(n, chordType)
    IN IF dockMode = "free" \/ Includes(shellScale, n)
       THEN /\ chord # NULL
            /\ calls # <<>>
            /\ calls[1] = Call("playChord",
                                ModifiedNotes(chord[1].notes, dockOctave, dockInversion))
       ELSE calls = <<>>

====
